---------------------------- MODULE Spec2Model ----------------------------
(***************************************************************************)
(* A model of the $INFERNO buyback / milestone burn scripts, their         *)
(* pending-operation recovery file, the burns and milestones tables and    *)
(* the price oracle.                                                       *)
(*                                                                         *)
(* Two OS processes share the persisted state: the buyback script          *)
(* (src/src/scripts/buyback.js) and the milestone script                   *)
(* (src/unnamed/part_009).  Each is modelled as a program counter that     *)
(* moves from one persisted effect (a transaction sent to the ledger, a    *)
(* write of data/pending-ops.json, a row written to SQLite) to the next;   *)
(* a process can be killed between any two of them and restarted.          *)
(*                                                                         *)
(* Every step is a function from (local state, persisted world, answers    *)
(* of the environment) to (local state, persisted world), so that a whole  *)
(* recovery pass can also be evaluated as a function of a persisted state. *)
(***************************************************************************)
EXTENDS Integers, Sequences, FiniteSets, TLC

VARIABLES
  bb,          \* buyback process: position, isProcessing, locals of the tick
  ms,          \* milestone process: position, isProcessing, lastCheckedMarketCap, locals
  slot,        \* contents of data/pending-ops.json: {buyback, milestone}
  burns,       \* rows of the burns table, in insertion order
  milestones,  \* rows of the milestones table, keyed by market_cap
  ledger,      \* transactions confirmed on chain; a signature is an index
  metrics,     \* number of rows of the metrics table
  crashes,     \* number of process kills so far
  now,           \* Date.now(), in milliseconds
  priceCache,    \* priceOracle.js: {data, timestamp}
  solPriceCache, \* priceOracle.js: {price, timestamp}
  calls,         \* the getTokenPrice call of each caller, if one is awaiting
  done,          \* the getTokenPrice calls that returned, in order of return
  pairs,         \* data.pairs of a DexScreener response
  bestPrice      \* priceInUsd that getPriceFromDexScreener made of pairs

scriptVars == <<bb, ms, slot, burns, milestones, ledger, metrics, crashes>>

oracleVars == <<now, priceCache, solPriceCache, calls, done>>

dexVars == <<pairs, bestPrice>>

vars == <<scriptVars, oracleVars, dexVars>>

-----------------------------------------------------------------------------
(* Bounds of the model *)

MaxTx == 5

MaxCrashes == 2

MaxMetrics == 1

(* tokensReceived values the buy step may report: 1 leaves nothing to burn
   after the 1% margin, 150 makes floor(0.99 * Y) differ from 0.99 * Y. *)
TokensReceived == {1, 100, 150}

(* Creator fee balances, in thousandths of a SOL. *)
FeeBalances == {0, 1, 50}

(* DEFAULTS.REWARDS_CLAIM_THRESHOLD, 0.001 SOL, in thousandths of a SOL. *)
REWARD_THRESHOLD == 1

(* SOL balance deltas around the collect step, in thousandths of a SOL. *)
Deltas == {-1, 0, 5, 6}

(* "Keep 0.005 SOL for gas", in thousandths of a SOL. *)
GasBuffer == 5

(* Market caps the oracle may report; 0 is the no-data value. *)
MarketCaps == {0, 10000, 60000, 120000}

(* The first entries of CONSTANTS.BURN_SCHEDULE. *)
BURN_SCHEDULE ==
  << [marketCap |-> 10000,  burnAmount |-> 10000000],
     [marketCap |-> 50000,  burnAmount |-> 15000000],
     [marketCap |-> 100000, burnAmount |-> 25000000] >>

-----------------------------------------------------------------------------
(* The pending-operations file (recovery module) *)

OP_STATES ==
  [STARTED |-> "started", FEES_COLLECTED |-> "fees_collected",
   TOKENS_BOUGHT |-> "tokens_bought", BURNED |-> "burned",
   COMPLETED |-> "completed", FAILED |-> "failed"]

(* JSON null for a slot; a null signature or quantity is 0 (both falsy). *)
NoSlot == [state |-> "none"]

(* loadPendingOps of a missing file *)
EmptyFile == [buyback |-> NoSlot, milestone |-> NoSlot]

startBuybackOp(f) ==
  [f EXCEPT !.buyback =
     [state |-> OP_STATES.STARTED, collectTx |-> 0, buyTx |-> 0, burnTx |-> 0,
      tokensBought |-> 0, error |-> FALSE]]

(* an update written over a fresh slot instead of the current one *)
updateBuybackOpFresh(f, updates) ==
  IF f.buyback # NoSlot
  THEN [f EXCEPT !.buyback = updates @@ startBuybackOp(f).buyback]
  ELSE f

(* { ...state.buyback, ...updates }: the fields of updates win *)
updateBuybackOp(f, updates) ==
  IF f.buyback # NoSlot THEN [f EXCEPT !.buyback = updates @@ @] ELSE f

completeBuybackOp(f) == [f EXCEPT !.buyback = NoSlot]

startMilestoneOp(f, milestoneMarketCap, burnAmount) ==
  [f EXCEPT !.milestone =
     [state |-> OP_STATES.STARTED, milestoneMarketCap |-> milestoneMarketCap,
      burnAmount |-> burnAmount, burnTx |-> 0, error |-> FALSE]]

updateMilestoneOp(f, updates) ==
  IF f.milestone # NoSlot THEN [f EXCEPT !.milestone = updates @@ @] ELSE f

completeMilestoneOp(f) == [f EXCEPT !.milestone = NoSlot]

(* verifyTransaction: verified only when the query answers and the
   transaction is there without error; a failing query gives verified:false
   just like a missing transaction. *)
verifyTransaction(ldg, signature, rpcOk) ==
  rpcOk /\ signature \in 1..Len(ldg)

(* The recovery action checkPendingOps returns for one class; fields the
   code leaves undefined are 0. *)
NoRecovery == [action |-> "none"]

checkPendingBuyback(f, ldg, rpcOk) ==
  LET b == f.buyback IN
  IF b = NoSlot THEN NoRecovery
  ELSE IF b.burnTx # 0 THEN
    IF verifyTransaction(ldg, b.burnTx, rpcOk)
    THEN [action |-> "mark_complete", tx |-> b.burnTx, tokensBought |-> 0]
    ELSE [action |-> "retry_burn", tx |-> 0, tokensBought |-> b.tokensBought]
  ELSE IF b.buyTx # 0 /\ b.tokensBought # 0 THEN
    IF verifyTransaction(ldg, b.buyTx, rpcOk)
    THEN [action |-> "burn_tokens", tx |-> 0, tokensBought |-> b.tokensBought]
    ELSE [action |-> "clear", tx |-> 0, tokensBought |-> 0]
  ELSE [action |-> "clear", tx |-> 0, tokensBought |-> 0]

(* a check that asks for a retry of a milestone burn that was never sent *)
checkPendingMilestoneRetry(f, ldg, rpcOk) ==
  LET m == f.milestone IN
  IF m = NoSlot THEN NoRecovery
  ELSE [action |-> "retry_burn", tx |-> 0,
        marketCap |-> m.milestoneMarketCap, burnAmount |-> m.burnAmount]

checkPendingMilestone(f, ldg, rpcOk) ==
  LET m == f.milestone IN
  IF m = NoSlot THEN NoRecovery
  ELSE IF m.burnTx # 0 THEN
    IF verifyTransaction(ldg, m.burnTx, rpcOk)
    THEN [action |-> "mark_complete", tx |-> m.burnTx,
          marketCap |-> m.milestoneMarketCap, burnAmount |-> 0]
    ELSE [action |-> "retry_burn", tx |-> 0,
          marketCap |-> m.milestoneMarketCap, burnAmount |-> m.burnAmount]
  ELSE [action |-> "clear", tx |-> 0, marketCap |-> 0, burnAmount |-> 0]

checkPendingOps(f, ldg, rpcOk) ==
  [buyback |-> checkPendingBuyback(f, ldg, rpcOk),
   milestone |-> checkPendingMilestone(f, ldg, rpcOk)]

-----------------------------------------------------------------------------
(* The database module *)

burnTxExists(tbl, txSignature) ==
  \E i \in 1..Len(tbl) : tbl[i].tx_signature = txSignature

(* INSERT INTO burns: tx_signature is UNIQUE, a second row with the same
   signature makes the statement throw and leaves the table as it was. *)
recordBurnThrows(tbl, burnData) == burnTxExists(tbl, burnData.txSignature)

recordBurn(tbl, burnData) ==
  IF recordBurnThrows(tbl, burnData) THEN tbl
  ELSE Append(tbl,
         [burn_type |-> burnData.burnType,
          burn_amount |-> burnData.burnAmount,
          tx_signature |-> burnData.txSignature,
          milestone_target |-> burnData.milestoneTarget,
          tokens_bought |-> burnData.tokensBought])

getTotalBurned(tbl) ==
  LET RECURSIVE Sum(_)
      Sum(i) == IF i = 0 THEN 0 ELSE tbl[i].burn_amount + Sum(i - 1)
  IN Sum(Len(tbl))

(* INSERT OR REPLACE of every schedule entry: rows already there are reset *)
initMilestonesReplace(tbl, schedule) ==
  LET caps == {schedule[i].marketCap : i \in 1..Len(schedule)}
      entry(c) == CHOOSE i \in 1..Len(schedule) : schedule[i].marketCap = c
  IN [c \in (DOMAIN tbl) \cup caps |->
        IF c \notin caps THEN tbl[c]
        ELSE [burn_amount |-> schedule[entry(c)].burnAmount,
              completed |-> 0, tx_signature |-> 0]]

(* INSERT OR IGNORE of every schedule entry: rows already there are kept *)
initMilestones(tbl, schedule) ==
  LET caps == {schedule[i].marketCap : i \in 1..Len(schedule)}
      entry(c) == CHOOSE i \in 1..Len(schedule) : schedule[i].marketCap = c
  IN [c \in (DOMAIN tbl) \cup caps |->
        IF c \in DOMAIN tbl THEN tbl[c]
        ELSE [burn_amount |-> schedule[entry(c)].burnAmount,
              completed |-> 0, tx_signature |-> 0]]

milestoneCompleted(tbl, marketCap) ==
  marketCap \in DOMAIN tbl /\ tbl[marketCap].completed = 1

(* UPDATE milestones SET completed = 1, tx_signature = ? WHERE market_cap = ? *)
completeMilestone(tbl, marketCap, txSignature) ==
  [c \in DOMAIN tbl |->
     IF c = marketCap
     THEN [tbl[c] EXCEPT !.completed = 1, !.tx_signature = txSignature]
     ELSE tbl[c]]

(* the larger market_cap first *)
OrderAfter(a, b) == a > b

(* The smaller market_cap first: ORDER BY market_cap ASC *)
OrderBefore(a, b) == a < b

(* every milestone not yet completed, whatever the market cap *)
getPendingMilestonesAnyCap(tbl, currentMarketCap) ==
  LET due == {c \in DOMAIN tbl : tbl[c].completed = 0}
      RECURSIVE Sorted(_)
      Sorted(S) ==
        IF S = {} THEN << >>
        ELSE LET first == CHOOSE c \in S : \A d \in S \ {c} : c < d
             IN << [market_cap |-> first, burn_amount |-> tbl[first].burn_amount] >>
                \o Sorted(S \ {first})
  IN Sorted(due)

(* SELECT * FROM milestones WHERE completed = 0 AND market_cap <= ?
   ORDER BY market_cap ASC, as a sequence of rows *)
getPendingMilestones(tbl, currentMarketCap) ==
  LET due == {c \in DOMAIN tbl : tbl[c].completed = 0 /\ c <= currentMarketCap}
      RECURSIVE Sorted(_)
      Sorted(S) ==
        IF S = {} THEN << >>
        ELSE LET first == CHOOSE c \in S : \A d \in S \ {c} : OrderBefore(c, d)
             IN << [market_cap |-> first, burn_amount |-> tbl[first].burn_amount] >>
                \o Sorted(S \ {first})
  IN Sorted(due)

-----------------------------------------------------------------------------
(* The world: everything that survives a process kill *)

World ==
  [slot |-> slot, burns |-> burns, milestones |-> milestones,
   ledger |-> ledger, metrics |-> metrics]

(* A confirmed transaction; its signature is its place in the ledger. *)
Send(w, tx) == [w EXCEPT !.ledger = Append(@, tx)]

NextSig(w) == Len(w.ledger) + 1

saveMetrics(w) == [w EXCEPT !.metrics = @ + 1]

Commit(w) ==
  /\ slot' = w.slot
  /\ burns' = w.burns
  /\ milestones' = w.milestones
  /\ ledger' = w.ledger
  /\ metrics' = w.metrics

Result(l, w) == [l |-> l, w |-> w]

(* the whole quantity, without the margin *)
FullAmount(y) == y

(* Math.floor(tokensBought * 0.99).  For the integer quantities in range the
   double product rounds to the exact value whenever 0.99 * y is an integer
   and stays strictly inside its unit interval otherwise, so the floor is
   that of the exact quotient. *)
MarginedAmount(y) == (y * 99) \div 100


-----------------------------------------------------------------------------
(* The buyback script *)

(* Locals of the buyback process; a finished call leaves no locals behind. *)
BLocal(pc, busy) ==
  [pc |-> pc, isProcessing |-> busy, sig |-> 0, tokensBought |-> 0,
   tokensToBurn |-> 0, recovery |-> "none"]

(* a cycle that ends with the guard still set *)
BReturnGuardHeld == BLocal("idle", TRUE)

(* executeBuybackCycle returned or threw: finally { isProcessing = false } *)
BReturn == BLocal("idle", FALSE)

(* main() finished checkPendingOps / handleRecovery; recovery is what the
   pass did, as main() logs it. *)
BRecovered(outcome) == [BLocal("recovered", FALSE) EXCEPT !.recovery = outcome]

BuybackBurnData(amount, sig, bought) ==
  [burnType |-> "buyback", burnAmount |-> amount, txSignature |-> sig,
   milestoneTarget |-> 0, tokensBought |-> bought]

(* main(): checkPendingOps, then handleRecovery up to its first effect that
   a kill can separate from the next one. *)
BuybackRecoveryStart(l, w, rpcOk, burnOk) ==
  LET r == checkPendingOps(w.slot, w.ledger, rpcOk).buyback IN
  CASE r.action = "none" -> Result(BRecovered("none"), w)
    [] r.action = "mark_complete" ->
         (* if (!burnTxExists(db, tx)) recordBurn({burnAmount: tokensBought || 0, ...}) *)
         Result([BLocal("rClear", FALSE) EXCEPT !.sig = r.tx, !.recovery = "mark_complete"],
                IF burnTxExists(w.burns, r.tx) THEN w
                ELSE [w EXCEPT !.burns =
                        recordBurn(@, BuybackBurnData(r.tokensBought, r.tx, r.tokensBought))])
    [] r.action = "burn_tokens" /\ r.tokensBought # 0 ->
         IF burnOk
         THEN Result([BLocal("rBurnSent", FALSE) EXCEPT
                        !.recovery = "burn_tokens",
                        !.sig = NextSig(w), !.tokensBought = r.tokensBought,
                        !.tokensToBurn = MarginedAmount(r.tokensBought)],
                     Send(w, [kind |-> "burn", qty |-> MarginedAmount(r.tokensBought),
                              class |-> "buyback", target |-> 0]))
         ELSE Result(BRecovered("burn_failed"), w)
    [] r.action = "clear" ->
         Result(BRecovered("clear"), [w EXCEPT !.slot = completeBuybackOp(@)])
    [] OTHER -> Result(BRecovered(r.action), w)   \* retry_burn: no branch handles it

(* a recovery burn whose record is never written *)
BuybackRecoveryRecordSkipped(l, w) == Result([l EXCEPT !.pc = "rClear"], w)

(* handleRecovery, burn_tokens: recordBurn after the recovery burn *)
BuybackRecoveryRecord(l, w) ==
  Result([l EXCEPT !.pc = "rClear"],
         [w EXCEPT !.burns =
            recordBurn(@, BuybackBurnData(l.tokensToBurn, l.sig, l.tokensBought))])

(* handleRecovery: completeBuybackOp() *)
BuybackRecoveryClear(l, w) ==
  Result(BRecovered(l.recovery), [w EXCEPT !.slot = completeBuybackOp(@)])

(* a tick that starts the body whether or not one is running *)
BuybackGuardReentrant(l, w) == Result(BLocal("check", TRUE), w)

(* executeBuybackCycle: the guard *)
BuybackGuard(l, w) ==
  IF l.isProcessing THEN Result(l, w)
  ELSE Result(BLocal("check", TRUE), w)

(* a cycle that opens its slot before it looks at the fee balance *)
BuybackCheckFeeSlotFirst(l, w, feeBalance) ==
  IF feeBalance < REWARD_THRESHOLD
  THEN Result(BReturn, [w EXCEPT !.slot = startBuybackOp(@)])
  ELSE Result([l EXCEPT !.pc = "started"], [w EXCEPT !.slot = startBuybackOp(@)])

(* Step 1: the fee balance against REWARD_THRESHOLD, then startBuybackOp *)
BuybackCheckFee(l, w, feeBalance) ==
  IF feeBalance < REWARD_THRESHOLD THEN Result(BReturn, w)
  ELSE Result([l EXCEPT !.pc = "started"], [w EXCEPT !.slot = startBuybackOp(@)])

(* collectCreatorFees *)
BuybackCollect(l, w, ok) ==
  IF ~ok
  THEN Result(BReturn,
              [w EXCEPT !.slot = updateBuybackOp(@, [state |-> OP_STATES.FAILED, error |-> TRUE])])
  ELSE Result([l EXCEPT !.pc = "collectSent", !.sig = NextSig(w)],
              Send(w, [kind |-> "collect", qty |-> 0, class |-> "buyback", target |-> 0]))

(* a collect whose checkpoint is not written *)
BuybackCollectCheckpointSkipped(l, w) == Result([l EXCEPT !.pc = "collected"], w)

BuybackCollectCheckpoint(l, w) ==
  Result([l EXCEPT !.pc = "collected"],
         [w EXCEPT !.slot = updateBuybackOp(@, [state |-> OP_STATES.FEES_COLLECTED,
                                                collectTx |-> l.sig])])

(* the buy step without the gas buffer *)
BuybackBuyUnbuffered(l, w, collectedAmount, ok, tokensReceived) ==
  IF collectedAmount <= 0
  THEN Result(BReturn, [w EXCEPT !.slot = completeBuybackOp(@)])
  ELSE IF ~ok
  THEN Result(BReturn,
              [w EXCEPT !.slot = updateBuybackOp(@, [state |-> OP_STATES.FAILED, error |-> TRUE])])
  ELSE Result([l EXCEPT !.pc = "buySent", !.sig = NextSig(w),
                        !.tokensBought = tokensReceived],
              Send(w, [kind |-> "buy", qty |-> tokensReceived,
                       class |-> "buyback", target |-> 0]))

(* collectedAmount, buybackAmount, then buyTokens *)
BuybackBuy(l, w, collectedAmount, ok, tokensReceived) ==
  LET buybackAmount == IF collectedAmount - GasBuffer > 0
                       THEN collectedAmount - GasBuffer ELSE 0
  IN
  IF collectedAmount <= 0 \/ buybackAmount <= 0
  THEN Result(BReturn, [w EXCEPT !.slot = completeBuybackOp(@)])
  ELSE IF ~ok
  THEN Result(BReturn,
              [w EXCEPT !.slot = updateBuybackOp(@, [state |-> OP_STATES.FAILED, error |-> TRUE])])
  ELSE Result([l EXCEPT !.pc = "buySent", !.sig = NextSig(w),
                        !.tokensBought = tokensReceived],
              Send(w, [kind |-> "buy", qty |-> tokensReceived,
                       class |-> "buyback", target |-> 0]))

BuybackBuyCheckpoint(l, w) ==
  Result([l EXCEPT !.pc = "bought"],
         [w EXCEPT !.slot = updateBuybackOp(@, [state |-> OP_STATES.TOKENS_BOUGHT,
                                                buyTx |-> l.sig,
                                                tokensBought |-> l.tokensBought])])

(* Step 5: tokensToBurn = Math.floor(tokensBought * 0.99), then burnTokens *)
TokensToBurn(tokensBought) == MarginedAmount(tokensBought)

BuybackBurn(l, w, ok) ==
  LET tokensToBurn == TokensToBurn(l.tokensBought) IN
  IF tokensToBurn <= 0 THEN Result(BReturn, w)   \* throws 'No tokens available to burn'
  ELSE IF ~ok
  THEN Result(BReturn,
              [w EXCEPT !.slot = updateBuybackOp(@, [state |-> OP_STATES.FAILED, error |-> TRUE])])
  ELSE Result([l EXCEPT !.pc = "burnSent", !.sig = NextSig(w),
                        !.tokensToBurn = tokensToBurn],
              Send(w, [kind |-> "burn", qty |-> tokensToBurn,
                       class |-> "buyback", target |-> 0]))

BuybackBurnCheckpoint(l, w) ==
  Result([l EXCEPT !.pc = "burned"],
         [w EXCEPT !.slot = updateBuybackOp(@, [state |-> OP_STATES.BURNED,
                                                burnTx |-> l.sig])])

(* Step 6: recordBurn; a throwing insert ends the cycle in the catch block *)
BuybackRecord(l, w) ==
  LET data == BuybackBurnData(l.tokensToBurn, l.sig, l.tokensBought) IN
  IF recordBurnThrows(w.burns, data) THEN Result(BReturn, w)
  ELSE Result([l EXCEPT !.pc = "recorded"], [w EXCEPT !.burns = recordBurn(@, data)])

BuybackClear(l, w) ==
  Result([l EXCEPT !.pc = "cleared"], [w EXCEPT !.slot = completeBuybackOp(@)])

BuybackMetrics(l, w) == Result(BReturn, saveMetrics(w))

(* The actions of the buyback process *)

BStep(r) ==
  bb' = r.l /\ Commit(r.w) /\ UNCHANGED <<ms, crashes, oracleVars, dexVars>>

CanSend == Len(ledger) < MaxTx

BRecoveryStart ==
  /\ bb.pc = "boot"
  /\ \E rpcOk \in BOOLEAN, burnOk \in BOOLEAN :
       /\ burnOk => CanSend
       /\ BStep(BuybackRecoveryStart(bb, World, rpcOk, burnOk))

BRecoveryRecord == bb.pc = "rBurnSent" /\ BStep(BuybackRecoveryRecord(bb, World))

BRecoveryClear == bb.pc = "rClear" /\ BStep(BuybackRecoveryClear(bb, World))

(* the initial call of main() or a cron tick *)
BTick ==
  /\ bb.pc \in {"recovered", "idle"}
  /\ metrics < MaxMetrics
  /\ BStep(BuybackGuard(bb, World))

(* a cron tick while a cycle is still awaiting *)
BTickOverlap ==
  /\ bb.isProcessing
  /\ BStep(BuybackGuard(bb, World))

BCheckFee ==
  /\ bb.pc = "check"
  /\ \E feeBalance \in FeeBalances : BStep(BuybackCheckFee(bb, World, feeBalance))

BCollect ==
  /\ bb.pc = "started"
  /\ \E ok \in BOOLEAN : (ok => CanSend) /\ BStep(BuybackCollect(bb, World, ok))

BCollectCheckpoint == bb.pc = "collectSent" /\ BStep(BuybackCollectCheckpoint(bb, World))

BBuy ==
  /\ bb.pc = "collected"
  /\ \E d \in Deltas, ok \in BOOLEAN, y \in TokensReceived :
       /\ ok => CanSend
       /\ BStep(BuybackBuy(bb, World, d, ok, y))

BBuyCheckpoint == bb.pc = "buySent" /\ BStep(BuybackBuyCheckpoint(bb, World))

BBurn ==
  /\ bb.pc = "bought"
  /\ \E ok \in BOOLEAN : (ok => CanSend) /\ BStep(BuybackBurn(bb, World, ok))

BBurnCheckpoint == bb.pc = "burnSent" /\ BStep(BuybackBurnCheckpoint(bb, World))

BRecord == bb.pc = "burned" /\ BStep(BuybackRecord(bb, World))

BClear == bb.pc = "recorded" /\ BStep(BuybackClear(bb, World))

BMetrics == bb.pc = "cleared" /\ BStep(BuybackMetrics(bb, World))

(* The process is killed and started again by its supervisor. *)
BCrash ==
  /\ crashes < MaxCrashes
  /\ bb.pc # "boot"
  /\ bb' = BLocal("boot", FALSE)
  /\ crashes' = crashes + 1
  /\ UNCHANGED <<ms, slot, burns, milestones, ledger, metrics, oracleVars, dexVars>>

NextBuyback ==
  \/ BRecoveryStart \/ BRecoveryRecord \/ BRecoveryClear
  \/ BTick \/ BTickOverlap \/ BCheckFee
  \/ BCollect \/ BCollectCheckpoint
  \/ BBuy \/ BBuyCheckpoint
  \/ BBurn \/ BBurnCheckpoint
  \/ BRecord \/ BClear \/ BMetrics
  \/ BCrash

-----------------------------------------------------------------------------
(* The milestone script *)

NoMilestone == [market_cap |-> 0, burn_amount |-> 0]

(* Locals of the milestone process.  lastCheckedMarketCap is a module-level
   variable: it lives as long as the process.  pending is the array the
   for-of loop of checkMilestones walks, next the place of the loop in it. *)
MLocal(pc, busy, last) ==
  [pc |-> pc, isProcessing |-> busy, lastCheckedMarketCap |-> last,
   pending |-> << >>, next |-> 1, cur |-> NoMilestone, sig |-> 0,
   caller |-> "none", recovery |-> "none"]

(* checkMilestones returned or threw: finally { isProcessing = false } *)
(* a check that ends where main() begins, so that recovery runs again *)
MReturnToBoot(l) == MLocal("boot", FALSE, l.lastCheckedMarketCap)

MReturn(l) == MLocal("idle", FALSE, l.lastCheckedMarketCap)

(* main() finished checkPendingOps / handleMilestoneRecovery; recovery is
   the action the pass handled. *)
MRecovered(l, outcome) ==
  [MLocal("recovered", FALSE, l.lastCheckedMarketCap) EXCEPT !.recovery = outcome]

MilestoneBurnData(amount, sig, target) ==
  [burnType |-> "milestone", burnAmount |-> amount, txSignature |-> sig,
   milestoneTarget |-> target, tokensBought |-> 0]

(* executeMilestoneBurn whose return ends the whole tick *)
ExecReturnAborting(l, w) ==
  IF l.caller = "recovery" THEN Result(MRecovered(l, l.recovery), w)
  ELSE Result(MReturn(l), w)

(* executeMilestoneBurn returned (a result or null) to its caller *)
ExecReturn(l, w) ==
  IF l.caller = "recovery" THEN Result(MRecovered(l, l.recovery), w)
  ELSE Result([l EXCEPT !.pc = "loop", !.cur = NoMilestone, !.sig = 0], w)

(* executeMilestoneBurn without its completed check *)
ExecBeginUnchecked(l, w, milestone) ==
  Result([l EXCEPT !.pc = "mStarted", !.cur = milestone],
         [w EXCEPT !.slot = startMilestoneOp(@, milestone.market_cap,
                                             milestone.burn_amount)])

(* executeMilestoneBurn up to startMilestoneOp *)
ExecBegin(l, w, milestone) ==
  IF milestoneCompleted(w.milestones, milestone.market_cap)
  THEN ExecReturn(l, w)
  ELSE Result([l EXCEPT !.pc = "mStarted", !.cur = milestone],
              [w EXCEPT !.slot = startMilestoneOp(@, milestone.market_cap,
                                                  milestone.burn_amount)])

(* executeMilestoneBurn going on to its record whatever burnTokens reported *)
MilestoneBurnIgnoringResult(l, w, balanceOk, burnOk) ==
  IF ~balanceOk
  THEN ExecReturn(l, [w EXCEPT !.slot =
                        updateMilestoneOp(@, [state |-> OP_STATES.FAILED, error |-> TRUE])])
  ELSE Result([l EXCEPT !.pc = "mBurnSent", !.sig = NextSig(w)],
              IF burnOk
              THEN Send(w, [kind |-> "burn", qty |-> l.cur.burn_amount,
                            class |-> "milestone", target |-> l.cur.market_cap])
              ELSE w)

(* executeMilestoneBurn: the balance check, then burnTokens *)
MilestoneBurn(l, w, balanceOk, burnOk) ==
  IF ~balanceOk \/ ~burnOk
  THEN ExecReturn(l, [w EXCEPT !.slot =
                        updateMilestoneOp(@, [state |-> OP_STATES.FAILED, error |-> TRUE])])
  ELSE Result([l EXCEPT !.pc = "mBurnSent", !.sig = NextSig(w)],
              Send(w, [kind |-> "burn", qty |-> l.cur.burn_amount,
                       class |-> "milestone", target |-> l.cur.market_cap]))

MilestoneBurnCheckpoint(l, w) ==
  Result([l EXCEPT !.pc = "mBurned"],
         [w EXCEPT !.slot = updateMilestoneOp(@, [state |-> OP_STATES.BURNED,
                                                  burnTx |-> l.sig])])

(* executeMilestoneBurn setting the completion flag without the record *)
MilestoneRecordSkipped(l, w) == Result([l EXCEPT !.pc = "mRecorded"], w)

(* recordBurn; a throwing insert is caught by executeMilestoneBurn *)
MilestoneRecord(l, w) ==
  LET data == MilestoneBurnData(l.cur.burn_amount, l.sig, l.cur.market_cap) IN
  IF recordBurnThrows(w.burns, data) THEN ExecReturn(l, w)
  ELSE Result([l EXCEPT !.pc = "mRecorded"], [w EXCEPT !.burns = recordBurn(@, data)])

MilestoneComplete(l, w) ==
  Result([l EXCEPT !.pc = "mCompleted"],
         [w EXCEPT !.milestones = completeMilestone(@, l.cur.market_cap, l.sig)])

MilestoneClear(l, w) ==
  ExecReturn(l, [w EXCEPT !.slot = completeMilestoneOp(@)])

(* main(): initMilestones, checkPendingOps, then handleMilestoneRecovery up
   to its first effect that a kill can separate from the next one. *)
MilestoneRecoveryStart(l, w0, rpcOk) ==
  LET w == [w0 EXCEPT !.milestones = initMilestones(@, BURN_SCHEDULE)]
      r == checkPendingOps(w.slot, w.ledger, rpcOk).milestone
  IN
  CASE r.action = "none" -> Result(MRecovered(l, "none"), w)
    [] r.action = "mark_complete" ->
         (* if (!burnTxExists(db, tx)) recordBurn({burnAmount: burnAmount || 0, ...}) *)
         Result([l EXCEPT !.pc = "rmRecorded", !.sig = r.tx, !.recovery = "mark_complete",
                          !.cur = [market_cap |-> r.marketCap, burn_amount |-> r.burnAmount]],
                IF burnTxExists(w.burns, r.tx) THEN w
                ELSE [w EXCEPT !.burns =
                        recordBurn(@, MilestoneBurnData(r.burnAmount, r.tx, r.marketCap))])
    [] r.action = "retry_burn" ->
         ExecBegin([l EXCEPT !.caller = "recovery", !.recovery = "retry_burn"], w,
                   [market_cap |-> r.marketCap, burn_amount |-> r.burnAmount])
    [] r.action = "clear" ->
         Result(MRecovered(l, "clear"), [w EXCEPT !.slot = completeMilestoneOp(@)])
    [] OTHER -> Result(MRecovered(l, r.action), w)

(* handleMilestoneRecovery: if (!milestoneCompleted(db, marketCap)) completeMilestone *)
MilestoneRecoveryComplete(l, w) ==
  Result([l EXCEPT !.pc = "rmCompleted"],
         IF milestoneCompleted(w.milestones, l.cur.market_cap) THEN w
         ELSE [w EXCEPT !.milestones = completeMilestone(@, l.cur.market_cap, l.sig)])

MilestoneRecoveryClear(l, w) ==
  Result(MRecovered(l, l.recovery), [w EXCEPT !.slot = completeMilestoneOp(@)])

(* checkMilestones: the guard *)
MilestoneGuard(l, w) ==
  IF l.isProcessing THEN Result(l, w)
  ELSE Result(MLocal("check", TRUE, l.lastCheckedMarketCap), w)

(* checkMilestones: getMarketCap, the unchanged-market-cap return, then
   getPendingMilestones *)
MilestoneCheck(l, w, currentMarketCap) ==
  IF currentMarketCap = l.lastCheckedMarketCap THEN Result(MReturn(l), w)
  ELSE LET pendingMilestones == getPendingMilestones(w.milestones, currentMarketCap)
           seen == [l EXCEPT !.lastCheckedMarketCap = currentMarketCap]
       IN IF Len(pendingMilestones) = 0 THEN Result(MReturn(seen), w)
          ELSE Result([seen EXCEPT !.pc = "loop", !.pending = pendingMilestones,
                                   !.next = 1, !.caller = "tick"], w)

(* for (const milestone of pendingMilestones) executeMilestoneBurn(milestone);
   after the last one, saveMetrics *)
MilestoneLoop(l, w) ==
  IF l.next > Len(l.pending) THEN Result(MReturn(l), saveMetrics(w))
  ELSE ExecBegin([l EXCEPT !.next = @ + 1], w, l.pending[l.next])

(* The actions of the milestone process *)

MStep(r) ==
  ms' = r.l /\ Commit(r.w) /\ UNCHANGED <<bb, crashes, oracleVars, dexVars>>

MRecoveryStart ==
  /\ ms.pc = "boot"
  /\ \E rpcOk \in BOOLEAN : MStep(MilestoneRecoveryStart(ms, World, rpcOk))

MRecoveryComplete == ms.pc = "rmRecorded" /\ MStep(MilestoneRecoveryComplete(ms, World))

MRecoveryClear == ms.pc = "rmCompleted" /\ MStep(MilestoneRecoveryClear(ms, World))

(* the initial call of main() or a cron tick *)
MTick ==
  /\ ms.pc \in {"recovered", "idle"}
  /\ metrics < MaxMetrics
  /\ MStep(MilestoneGuard(ms, World))

(* a cron tick while a check is still awaiting *)
MTickOverlap ==
  /\ ms.isProcessing
  /\ MStep(MilestoneGuard(ms, World))

MCheck ==
  /\ ms.pc = "check"
  /\ \E cap \in MarketCaps : MStep(MilestoneCheck(ms, World, cap))

MLoop == ms.pc = "loop" /\ MStep(MilestoneLoop(ms, World))

MBurn ==
  /\ ms.pc = "mStarted"
  /\ \E balanceOk \in BOOLEAN, burnOk \in BOOLEAN :
       /\ (balanceOk /\ burnOk) => CanSend
       /\ MStep(MilestoneBurn(ms, World, balanceOk, burnOk))

MBurnCheckpoint == ms.pc = "mBurnSent" /\ MStep(MilestoneBurnCheckpoint(ms, World))

MRecord == ms.pc = "mBurned" /\ MStep(MilestoneRecord(ms, World))

MComplete == ms.pc = "mRecorded" /\ MStep(MilestoneComplete(ms, World))

MClear == ms.pc = "mCompleted" /\ MStep(MilestoneClear(ms, World))

MCrash ==
  /\ crashes < MaxCrashes
  /\ ms.pc # "boot"
  /\ ms' = MLocal("boot", FALSE, 0)
  /\ crashes' = crashes + 1
  /\ UNCHANGED <<bb, slot, burns, milestones, ledger, metrics, oracleVars, dexVars>>

NextMilestone ==
  \/ MRecoveryStart \/ MRecoveryComplete \/ MRecoveryClear
  \/ MTick \/ MTickOverlap \/ MCheck \/ MLoop
  \/ MBurn \/ MBurnCheckpoint
  \/ MRecord \/ MComplete \/ MClear
  \/ MCrash

-----------------------------------------------------------------------------
(* The price oracle (src/src/lib/priceOracle.js) *)

CACHE_TTL_MS == 30000

MaxPairs == 3

MaxCalls == 2

MaxNow == 30000

(* by how much the clock moves between two steps *)
TimeSteps == {29999, 30000}

(* token addresses *)
Assets == {"A", "B"}

(* who calls getTokenPrice: the scripts and the API routes *)
Callers == {"orchestrator", "api"}

(* null, and a value that is there *)
Null == << >>

Some(v) == << v >>

(* parseFloat of the decimal strings the sources answer with *)
parseFloat(s) ==
  CASE s = "0" -> 0
    [] s = "1" -> 1
    [] s = "2" -> 2
    [] s = "150" -> 150

(* A DexScreener pair: priceUsd is a decimal string; liquidity is Null when
   the pair has no liquidity object, else Some(liquidity.usd). *)
Pairs == [priceUsd : {"1", "2"}, liquidity : {Null, Some(0), Some(100), Some(500)}]

RECURSIVE PairLists(_)
PairLists(n) ==
  IF n = 0 THEN {<< >>}
  ELSE LET shorter == PairLists(n - 1)
       IN shorter \cup {Append(ps, p) : ps \in {q \in shorter : Len(q) = n - 1}, p \in Pairs}

(* parseFloat(pair.liquidity?.usd || 0) *)
LiquidityUsd(pair) == IF pair.liquidity = Null THEN 0 ELSE pair.liquidity[1]

(* a later pair of equal liquidity replaces the best one *)
AtLeastAsLiquid(liquidity, bestLiquidity) == liquidity >= bestLiquidity

(* liquidity > bestLiquidity ? pair : best *)
MoreLiquid(liquidity, bestLiquidity) == liquidity > bestLiquidity

(* data.pairs.reduce((best, pair) => ..., data.pairs[0]) *)
RECURSIVE ReducePairs(_, _, _)
ReducePairs(ps, i, best) ==
  IF i > Len(ps) THEN best
  ELSE ReducePairs(ps, i + 1,
                   IF MoreLiquid(LiquidityUsd(ps[i]), LiquidityUsd(best))
                   THEN ps[i] ELSE best)

(* getPriceFromDexScreener on a response with these pairs: Null when there
   are none, else priceInUsd of the pair with the highest liquidity *)
getPriceFromDexScreener(ps) ==
  IF Len(ps) = 0 THEN Null
  ELSE Some(parseFloat(ReducePairs(ps, 1, ps[1]).priceUsd))

(* one DexScreener response resolved *)
DexScreenerResolve ==
  /\ ~bestPrice.resolved
  /\ bestPrice' = [resolved |-> TRUE, price |-> getPriceFromDexScreener(pairs)]
  /\ UNCHANGED <<pairs, scriptVars, oracleVars>>

NextDex == DexScreenerResolve

-----------------------------------------------------------------------------
(* getSolPriceInUsd and getTokenPrice *)

(* what the SOL price sources answer: Jupiter's usdPrice, 0 when the request
   fails or has none; DexScreener's pairs[0].priceUsd, Null when the request
   fails or has no pair, "0" for a pair DexScreener has no USD price for *)
SolJupiterAnswers == {0, 150}

SolDexScreenerAnswers == {Null, Some("150"), Some("0")}

SolAnswers == [jupiter : SolJupiterAnswers, dexscreener : SolDexScreenerAnswers]

(* getSolPriceInUsd at time t: the price, the cache it leaves and the number
   of requests it made.  A price of 0 in the cache is the initial null. *)
getSolPriceInUsd(cache, t, answers) ==
  IF cache.price # 0 /\ t - cache.timestamp < CACHE_TTL_MS
  THEN [price |-> cache.price, cache |-> cache, queries |-> 0]
  ELSE IF answers.jupiter # 0
  THEN [price |-> answers.jupiter,
        cache |-> [price |-> answers.jupiter, timestamp |-> t], queries |-> 1]
  ELSE IF answers.dexscreener # Null
  THEN [price |-> parseFloat(answers.dexscreener[1]),
        cache |-> [price |-> parseFloat(answers.dexscreener[1]), timestamp |-> t],
        queries |-> 2]
  ELSE [price |-> IF cache.price # 0 THEN cache.price ELSE 200,
        cache |-> cache, queries |-> 2]

(* The object a source returns, reduced to its source tag and priceInUsd.
   asset is not a field of the object: it names the token address the
   sources were asked about. *)
Valuation(asset, source, priceInUsd) ==
  [asset |-> asset, source |-> source, priceInUsd |-> priceInUsd]

(* what the token price sources answer: the bonding curve's price in SOL,
   Null once graduated or on error; Jupiter's usdPrice, 0 when it has none
   or fails; DexScreener's pairs, none when it fails *)
BondingCurveAnswers == {Null, Some(1)}

JupiterAnswers == {0, 1, 2}

DexScreenerAnswers == PairLists(1)

(* a cache entry still served when it is exactly CACHE_TTL_MS old *)
CacheFreshInclusive(cache, t) ==
  cache.data # Null /\ t - cache.timestamp <= CACHE_TTL_MS

(* if (priceCache.data && (now - priceCache.timestamp) < CACHE_TTL_MS) *)
CacheFresh(cache, t) == cache.data # Null /\ t - cache.timestamp < CACHE_TTL_MS

(* A getTokenPrice call: now is its Date.now(), queries the number of
   requests it has made to the token price sources, alone whether no other
   call has been awaiting at any time since it was entered. *)
NoCall == [pc |-> "idle", asset |-> "", now |-> 0, queries |-> 0, alone |-> TRUE]

Awaiting == {c \in Callers : calls[c].pc # "idle"}

(* calls entered so far *)
Entered == Len(done) + Cardinality(Awaiting)

(* what a returned call leaves in done; by tells where its result came
   from: "cache" (the fresh entry), "source", "last_known" (the entry kept
   when every source failed) or "defaults" *)
Returned(call, result, by) ==
  [asset |-> call.asset, start |-> call.now, queries |-> call.queries,
   by |-> by, result |-> result, alone |-> call.alone]

(* getTokenPrice returns result to caller c *)
Return(c, call, result, by) ==
  /\ done' = Append(done, Returned(call, result, by))
  /\ calls' = [calls EXCEPT ![c] = NoCall]

(* a source yielded a valuation: priceCache = { data, timestamp: now } *)
StoreAndReturn(c, call, valuation) ==
  /\ priceCache' = [data |-> Some(valuation), timestamp |-> call.now]
  /\ Return(c, call, valuation, "source")

(* a call that goes from the bonding curve straight to DexScreener *)
SourceAfterSkipping(source) == "dexscreener"

(* the source getTokenPrice turns to when source yielded nothing:
   1. bonding curve, 2. Jupiter, 3. DexScreener *)
SourceAfter(source) ==
  CASE source = "bonding" -> "jupiter"
    [] source = "jupiter" -> "dexscreener"

(* getTokenPrice(tokenAddress) up to its first await *)
OEnter(c) ==
  /\ calls[c].pc = "idle"
  /\ Entered < MaxCalls
  /\ \E asset \in Assets :
       LET call == [NoCall EXCEPT !.asset = asset, !.now = now,
                                  !.alone = (Awaiting = {})]
           others == [d \in Callers |-> [calls[d] EXCEPT !.alone = (calls[d].pc = "idle")]]
       IN IF CacheFresh(priceCache, now)
          THEN /\ done' = Append(done, Returned(call, priceCache.data[1], "cache"))
               /\ UNCHANGED <<now, priceCache, solPriceCache, calls>>
          ELSE /\ calls' = [others EXCEPT ![c] = [call EXCEPT !.pc = "bonding"]]
               /\ UNCHANGED <<now, priceCache, solPriceCache, done>>
  /\ UNCHANGED <<scriptVars, dexVars>>

(* 1. getPriceFromBondingCurve answered *)
OBondingCurve(c) ==
  /\ calls[c].pc = "bonding"
  /\ \E answer \in BondingCurveAnswers :
       LET call == [calls[c] EXCEPT !.queries = @ + 1] IN
       IF answer # Null
       THEN \E sa \in SolAnswers :
              LET sol == getSolPriceInUsd(solPriceCache, now, sa) IN
                /\ solPriceCache' = sol.cache
                /\ StoreAndReturn(c, call, Valuation(call.asset, "bonding_curve",
                                                     answer[1] * sol.price))
       ELSE /\ calls' = [calls EXCEPT ![c] = [call EXCEPT !.pc = SourceAfter("bonding")]]
            /\ UNCHANGED <<priceCache, solPriceCache, done>>
  /\ UNCHANGED <<now, scriptVars, dexVars>>

(* 2. getPriceFromJupiter answered *)
OJupiter(c) ==
  /\ calls[c].pc = "jupiter"
  /\ \E answer \in JupiterAnswers :
       LET call == [calls[c] EXCEPT !.queries = @ + 1] IN
       IF answer # 0
       THEN \E sa \in SolAnswers :
              LET sol == getSolPriceInUsd(solPriceCache, now, sa) IN
                /\ solPriceCache' = sol.cache
                /\ StoreAndReturn(c, call, Valuation(call.asset, "jupiter", answer))
       ELSE /\ calls' = [calls EXCEPT ![c] = [call EXCEPT !.pc = SourceAfter("jupiter")]]
            /\ UNCHANGED <<priceCache, solPriceCache, done>>
  /\ UNCHANGED <<now, scriptVars, dexVars>>

(* 3. getPriceFromDexScreener answered; 4. the last known price or the
   defaults *)
ODexScreener(c) ==
  /\ calls[c].pc = "dexscreener"
  /\ \E answer \in DexScreenerAnswers :
       LET call == [calls[c] EXCEPT !.queries = @ + 1]
           price == getPriceFromDexScreener(answer)
       IN
       IF price = Null /\ priceCache.data # Null
       THEN /\ Return(c, call, priceCache.data[1], "last_known")
            /\ UNCHANGED <<priceCache, solPriceCache>>
       ELSE \E sa \in SolAnswers :
              LET sol == getSolPriceInUsd(solPriceCache, now, sa) IN
                /\ solPriceCache' = sol.cache
                /\ IF price # Null
                   THEN StoreAndReturn(c, call, Valuation(call.asset, "dexscreener", price[1]))
                   ELSE /\ Return(c, call, Valuation(call.asset, "none", 0), "defaults")
                        /\ UNCHANGED priceCache
  /\ UNCHANGED <<now, scriptVars, dexVars>>

(* time passes *)
OAdvance ==
  /\ \E d \in TimeSteps : now + d <= MaxNow /\ now' = now + d
  /\ UNCHANGED <<priceCache, solPriceCache, calls, done, scriptVars, dexVars>>

NextOracle ==
  \/ OAdvance
  \/ \E c \in Callers : OEnter(c)
  \/ \E c \in Callers : OBondingCurve(c)
  \/ \E c \in Callers : OJupiter(c)
  \/ \E c \in Callers : ODexScreener(c)

(* the grace period the last known price is meant to be held to: ten times
   the TTL *)
GracePeriod == 10 * CACHE_TTL_MS

(* a long stretch in which nobody asks for the price *)
OOutage ==
  /\ now <= MaxNow
  /\ now' = now + GracePeriod
  /\ UNCHANGED <<priceCache, solPriceCache, calls, done, scriptVars, dexVars>>

NextOutage == NextOracle \/ OOutage

-----------------------------------------------------------------------------
(* Specifications *)

InitScripts ==
  /\ bb = BLocal("boot", FALSE)
  /\ ms = MLocal("boot", FALSE, 0)
  /\ slot = EmptyFile
  /\ burns = << >>
  /\ milestones = initMilestones(<< >>, BURN_SCHEDULE)
  /\ ledger = << >>
  /\ metrics = 0
  /\ crashes = 0

(* the module-level state of priceOracle.js when it is loaded *)
InitOracle ==
  /\ now = 0
  /\ priceCache = [data |-> Null, timestamp |-> 0]
  /\ solPriceCache = [price |-> 0, timestamp |-> 0]
  /\ calls = [c \in Callers |-> NoCall]
  /\ done = << >>

Init ==
  /\ InitScripts
  /\ InitOracle
  /\ pairs = << >>
  /\ bestPrice = [resolved |-> FALSE, price |-> Null]

(* any DexScreener response of up to MaxPairs pairs *)
InitDex ==
  /\ InitScripts
  /\ InitOracle
  /\ pairs \in PairLists(MaxPairs)
  /\ bestPrice = [resolved |-> FALSE, price |-> Null]

(* the buyback script alone *)
SpecBuyback == Init /\ [][NextBuyback]_vars

(* the milestone script alone *)
SpecMilestone == Init /\ [][NextMilestone]_vars

(* getTokenPrice and its callers *)
SpecOracle == Init /\ [][NextOracle]_vars

(* getTokenPrice and its callers, with an outage among the waits *)
SpecOutage == Init /\ [][NextOutage]_vars

(* getPriceFromDexScreener on every response *)
SpecDex == InitDex /\ [][NextDex]_vars

(* both scripts running side by side against the same file, database and
   wallet, neither of them killed *)
NextRunning ==
  \/ BRecoveryStart \/ BTick \/ BTickOverlap
  \/ BCheckFee \/ BCollect \/ BCollectCheckpoint
  \/ BBuy \/ BBuyCheckpoint \/ BBurn \/ BBurnCheckpoint
  \/ BRecord \/ BClear \/ BMetrics
  \/ MRecoveryStart \/ MTick \/ MTickOverlap \/ MCheck \/ MLoop
  \/ MBurn \/ MBurnCheckpoint \/ MRecord \/ MComplete \/ MClear

SpecRunning == Init /\ [][NextRunning]_vars

(* the two scripts and the oracle together; the properties below are checked
   on the parts, whose state spaces are small enough to exhaust *)
Next == NextBuyback \/ NextMilestone \/ NextOracle \/ NextDex

Spec == Init /\ [][Next]_vars

-----------------------------------------------------------------------------
(* A whole recovery pass, as the start-up code runs it to its end when no
   kill interrupts it.  env holds the answers of the outside during the pass:
   rpcOk, whether getTransaction answers; burnOk, whether burnTokens
   succeeds; balanceOk, whether the wallet holds the milestone amount. *)

RecoveryEnv == [rpcOk : BOOLEAN, burnOk : BOOLEAN, balanceOk : BOOLEAN]

RECURSIVE RunBuybackRecovery(_, _, _)
RunBuybackRecovery(l, w, env) ==
  LET r == CASE l.pc = "boot" -> BuybackRecoveryStart(l, w, env.rpcOk, env.burnOk)
             [] l.pc = "rBurnSent" -> BuybackRecoveryRecord(l, w)
             [] l.pc = "rClear" -> BuybackRecoveryClear(l, w)
             [] OTHER -> Result(l, w)
  IN IF l.pc = "recovered" THEN w ELSE RunBuybackRecovery(r.l, r.w, env)

RECURSIVE RunMilestoneRecovery(_, _, _)
RunMilestoneRecovery(l, w, env) ==
  LET r == CASE l.pc = "boot" -> MilestoneRecoveryStart(l, w, env.rpcOk)
             [] l.pc = "rmRecorded" -> MilestoneRecoveryComplete(l, w)
             [] l.pc = "rmCompleted" -> MilestoneRecoveryClear(l, w)
             [] l.pc = "mStarted" -> MilestoneBurn(l, w, env.balanceOk, env.burnOk)
             [] l.pc = "mBurnSent" -> MilestoneBurnCheckpoint(l, w)
             [] l.pc = "mBurned" -> MilestoneRecord(l, w)
             [] l.pc = "mRecorded" -> MilestoneComplete(l, w)
             [] l.pc = "mCompleted" -> MilestoneClear(l, w)
             [] OTHER -> Result(l, w)
  IN IF l.pc = "recovered" THEN w ELSE RunMilestoneRecovery(r.l, r.w, env)

(* the buyback script restarted on the persisted state w *)
BuybackRecoveryPass(w, env) == RunBuybackRecovery(BLocal("boot", FALSE), w, env)

(* the milestone script restarted on the persisted state w *)
MilestoneRecoveryPass(w, env) == RunMilestoneRecovery(MLocal("boot", FALSE, 0), w, env)

-----------------------------------------------------------------------------
(* Vocabulary of the properties *)

(* the places in a ledger of the burns of one class *)
BurnTxs(ldg, class) ==
  {i \in 1..Len(ldg) : ldg[i].kind = "burn" /\ ldg[i].class = class}

(* the places in a ledger of the milestone burns for one target *)
MilestoneBurnTxs(ldg, target) ==
  {i \in BurnTxs(ldg, "milestone") : ldg[i].target = target}

RECURSIVE QtyOver(_, _)
QtyOver(ldg, places) ==
  IF places = {} THEN 0
  ELSE LET i == CHOOSE x \in places : TRUE
       IN ldg[i].qty + QtyOver(ldg, places \ {i})

(* the quantity destroyed on chain *)
TotalDestroyed(ldg) == QtyOver(ldg, {i \in 1..Len(ldg) : ldg[i].kind = "burn"})

(* neither script is inside an operation and no operation is pending *)
Quiescent ==
  /\ slot = EmptyFile
  /\ bb.pc \in {"boot", "recovered", "idle"}
  /\ ms.pc \in {"boot", "recovered", "idle"}

-----------------------------------------------------------------------------
(* C1: no double-destruction.  The burn table never holds two records with
   one tx_signature, and whenever no operation is running or pending, the
   sum of its burn_amount equals the quantity destroyed on chain. *)
C1_NoDoubleDestruction ==
  /\ \A i, j \in 1..Len(burns) :
       burns[i].tx_signature = burns[j].tx_signature => i = j
  /\ Quiescent => getTotalBurned(burns) = TotalDestroyed(ledger)

-----------------------------------------------------------------------------
(* The buyback process right after the TOKENS_BOUGHT checkpoint: the slot
   holds buyTx and tokensBought and no burn has been sent for the cycle. *)
AfterTokensBought == bb.pc = "bought"

(* C2, as stated: killed right after the TOKENS_BOUGHT checkpoint and
   restarted, the recovery pass ends with exactly one more burn record and a
   cleared slot, whatever the outside answers. *)
C2_AlwaysOneRecord ==
  AfterTokensBought =>
    \A env \in RecoveryEnv :
      LET after == BuybackRecoveryPass(World, env) IN
        /\ Len(after.burns) = Len(burns) + 1
        /\ after.slot.buyback = NoSlot

(* C2, amended: killed right after the TOKENS_BOUGHT checkpoint and
   restarted, if the buy verifies and the recovery burn succeeds then the
   pass sends one burn of floor(0.99 * tokensBought) of the persisted
   tokensBought, writes exactly one burn record, for that burn, and clears
   the slot; otherwise it sends no burn and writes no record. *)
C2_ResumeAtBurn ==
  AfterTokensBought =>
    \A env \in RecoveryEnv :
      LET after == BuybackRecoveryPass(World, env)
          Y == slot.buyback.tokensBought
          sig == Len(ledger) + 1
      IN IF env.rpcOk /\ env.burnOk
         THEN /\ after.ledger = Append(ledger, [kind |-> "burn", qty |-> MarginedAmount(Y),
                                                class |-> "buyback", target |-> 0])
              /\ Len(after.burns) = Len(burns) + 1
              /\ SubSeq(after.burns, 1, Len(burns)) = burns
              /\ after.burns[Len(after.burns)].tx_signature = sig
              /\ after.burns[Len(after.burns)].burn_amount = MarginedAmount(Y)
              /\ after.burns[Len(after.burns)].tokens_bought = Y
              /\ after.slot.buyback = NoSlot
         ELSE /\ after.ledger = ledger
              /\ after.burns = burns

(* a restart after a kill that resumed at the burn step: one burn on the
   ledger, one record, the slot cleared *)
C2_Resumed ==
  /\ crashes >= 1
  /\ bb.pc = "recovered" /\ bb.recovery = "burn_tokens"
  /\ slot.buyback = NoSlot
  /\ Len(burns) = 1
  /\ Cardinality(BurnTxs(ledger, "buyback")) = 1
  /\ burns[1].tx_signature \in BurnTxs(ledger, "buyback")

-----------------------------------------------------------------------------
(* C3: idempotent recovery.  From every reachable persisted state, running
   the start-up recovery of a script twice in a row, with the outside giving
   the same answers both times, leaves the slot file, the burn table, the
   milestone table and the ledger as running it once does. *)
C3_RecoveryIdempotent ==
  \A env \in RecoveryEnv :
    LET b1 == BuybackRecoveryPass(World, env)
        m1 == MilestoneRecoveryPass(World, env)
    IN /\ BuybackRecoveryPass(b1, env) = b1
       /\ MilestoneRecoveryPass(m1, env) = m1

-----------------------------------------------------------------------------
CompletedMilestones == {c \in DOMAIN milestones : milestones[c].completed = 1}

(* C4: threshold monotonicity.  executeMilestoneBurn called for a completed
   milestone changes nothing that persists and sends nothing; and no step of
   a tick or of a recovery pass sets a completed milestone back to 0 or adds
   a burn for it to the ledger, whatever market caps the ticks see. *)
C4_CompletedStays ==
  /\ [](\A c \in CompletedMilestones :
          ExecBegin(ms, World, [market_cap |-> c,
                                burn_amount |-> milestones[c].burn_amount]).w = World)
  /\ [][\A c \in CompletedMilestones :
          /\ c \in DOMAIN milestones'
          /\ milestones'[c].completed = 1
          /\ MilestoneBurnTxs(ledger', c) = MilestoneBurnTxs(ledger, c)]_vars

(* a recovery pass re-ran executeMilestoneBurn for a milestone that was
   already completed: the slot and the single burn are as they were *)
C4_CompletedRevisited ==
  /\ ms.pc = "recovered" /\ ms.recovery = "retry_burn"
  /\ slot.milestone # NoSlot
  /\ milestoneCompleted(milestones, slot.milestone.milestoneMarketCap)
  /\ Cardinality(MilestoneBurnTxs(ledger, slot.milestone.milestoneMarketCap)) = 1

-----------------------------------------------------------------------------
(* C5: each milestone authorizes exactly one burn.  Across ticks, kills and
   recovery passes the ledger holds at most one burn for any milestone
   market_cap. *)
C5_OneBurnPerMilestone ==
  \A c \in DOMAIN milestones : Cardinality(MilestoneBurnTxs(ledger, c)) <= 1

-----------------------------------------------------------------------------
(* the market caps of a sequence of milestone rows *)
CapsOf(rows) == {rows[i].market_cap : i \in 1..Len(rows)}

(* the milestones of the tick's list that the loop has already handed to
   executeMilestoneBurn *)
Attempted == {ms.pending[i].market_cap : i \in 1..(ms.next - 1)}

InExecuteMilestoneBurn ==
  ms.pc \in {"mStarted", "mBurnSent", "mBurned", "mRecorded", "mCompleted"}

(* C6: in a checkMilestones tick the list of due milestones is in strictly
   ascending market_cap order and holds exactly the rows with completed = 0
   and market_cap <= the market cap of the tick (the rows the loop has
   already attempted may have been completed since); the loop hands them to
   executeMilestoneBurn one at a time in that order, and each burn a tick
   sends is the single burn of the milestone the loop is at. *)
C6_DueAscending ==
  /\ [](ms.caller = "tick" =>
          /\ \A i, j \in 1..Len(ms.pending) :
               i < j => ms.pending[i].market_cap < ms.pending[j].market_cap
          /\ CapsOf(ms.pending) =
               {c \in DOMAIN milestones :
                  /\ c <= ms.lastCheckedMarketCap
                  /\ milestones[c].completed = 0 \/ c \in Attempted}
          /\ \A c \in CapsOf(ms.pending) \ Attempted : milestones[c].completed = 0
          /\ ms.next \in 1..(Len(ms.pending) + 1)
          /\ InExecuteMilestoneBurn => ms.cur = ms.pending[ms.next - 1])
  /\ [][(ms.caller = "tick" /\ ledger' # ledger) =>
          /\ InExecuteMilestoneBurn
          /\ ledger' = Append(ledger, [kind |-> "burn", qty |-> ms.cur.burn_amount,
                                       class |-> "milestone",
                                       target |-> ms.pending[ms.next - 1].market_cap])
          /\ ms'.next = ms.next]_vars

(* market cap 120000 with all three milestones due: they were burned in the
   order 10000, 50000, 100000 within one tick *)
C6_ThreeInOrder ==
  /\ ms.caller = "tick"
  /\ ms.lastCheckedMarketCap = 120000
  /\ ms.next = 4
  /\ Len(ms.pending) = 3
  /\ Len(ledger) = 3
  /\ ledger[1].target = 10000 /\ ledger[2].target = 50000 /\ ledger[3].target = 100000
  /\ crashes = 0

-----------------------------------------------------------------------------
(* the buy whose output a buyback burn destroys: the last buy sent before it *)
BuyBefore(i) ==
  LET buys == {k \in 1..(i - 1) : ledger[k].kind = "buy"}
  IN CHOOSE k \in buys : \A m \in buys : m <= k

(* C9: observed-not-assumed quantities.  Every buyback burn on the ledger is
   for floor(0.99 * Y), Y the tokensReceived the buy of its cycle reported;
   and every buyback burn record carries as burn_amount the quantity its
   burn destroyed and as tokens_bought that Y. *)
C9_ObservedQuantities ==
  /\ \A i \in BurnTxs(ledger, "buyback") :
       ledger[i].qty = MarginedAmount(ledger[BuyBefore(i)].qty)
  /\ \A r \in 1..Len(burns) :
       burns[r].burn_type = "buyback" =>
         /\ burns[r].tx_signature \in BurnTxs(ledger, "buyback")
         /\ burns[r].burn_amount = ledger[burns[r].tx_signature].qty
         /\ burns[r].tokens_bought = ledger[BuyBefore(burns[r].tx_signature)].qty

-----------------------------------------------------------------------------
(* C10: a tick that finds the creator fee balance below REWARD_THRESHOLD is
   a pure no-op: from every state in which executeBuybackCycle is at its fee
   check, with any balance below the threshold it returns with the slot
   file, the burn table, the ledger and the metrics as they were and with
   isProcessing false; and every step that takes the process from the fee
   check back to idle leaves all of them unchanged. *)
C10_BelowThresholdNoOp ==
  /\ [](bb.pc = "check" =>
          \A feeBalance \in FeeBalances :
            feeBalance < REWARD_THRESHOLD =>
              LET r == BuybackCheckFee(bb, World, feeBalance) IN
                /\ r.w = World
                /\ r.l.pc = "idle"
                /\ r.l.isProcessing = FALSE)
  /\ [][(bb.pc = "check" /\ bb'.pc = "idle") =>
          /\ UNCHANGED <<slot, burns, milestones, ledger, metrics>>
          /\ bb'.isProcessing = FALSE]_vars

(* a first tick returned below the threshold: nothing sent, nothing written,
   the guard released *)
C10_SkippedTick ==
  /\ bb.pc = "idle"
  /\ bb.isProcessing = FALSE
  /\ slot = EmptyFile
  /\ ledger = << >>
  /\ burns = << >>
  /\ metrics = 0

-----------------------------------------------------------------------------
(* two calls, the second entered after the first returned, with no other
   call between them or during the second *)
Sequential(i) == i \in 1..(Len(done) - 1) /\ done[i + 1].alone

(* the number of the two calls that queried a source *)
RoundsOf(i) ==
  (IF done[i].queries > 0 THEN 1 ELSE 0) + (IF done[i + 1].queries > 0 THEN 1 ELSE 0)

(* C7, as stated: two sequential getTokenPrice calls for the same asset
   less than CACHE_TTL_MS apart query the sources exactly once, and the
   second returns the cached valuation without a query. *)
C7_OneRoundWithinTtl ==
  \A i \in 1..(Len(done) - 1) :
    (/\ Sequential(i)
     /\ done[i].alone
     /\ done[i].asset = done[i + 1].asset
     /\ done[i + 1].start - done[i].start < 30000)
    => /\ RoundsOf(i) = 1
       /\ done[i + 1].by = "cache"
       /\ done[i + 1].queries = 0

(* C7, amended: of two sequential getTokenPrice calls for the same asset,
   the first having obtained its valuation from a source, the second returns
   that valuation from the cache without any source query if it is entered
   less than CACHE_TTL_MS after the first, and queries the sources again if
   it is entered CACHE_TTL_MS or more after it.  A call is served from the
   cache only when the entry is there and younger than CACHE_TTL_MS, and then
   it changes nothing; any other call starts with the first source. *)
C7_CacheWithinTtl ==
  /\ [](\A i \in 1..(Len(done) - 1) :
          (/\ Sequential(i)
           /\ done[i].asset = done[i + 1].asset
           /\ done[i].by = "source")
          => IF done[i + 1].start - done[i].start < 30000
             THEN /\ done[i + 1].by = "cache"
                  /\ done[i + 1].queries = 0
                  /\ done[i + 1].result = done[i].result
                  /\ RoundsOf(i) = 1
             ELSE /\ done[i + 1].by # "cache"
                  /\ done[i + 1].queries >= 1)
  /\ [][LET young == priceCache.data # Null /\ now - priceCache.timestamp < 30000 IN
        /\ (Len(done') > Len(done) /\ done'[Len(done')].by = "cache") =>
             /\ young
             /\ done'[Len(done')].result = priceCache.data[1]
             /\ done'[Len(done')].queries = 0
             /\ UNCHANGED <<priceCache, solPriceCache, calls>>
        /\ \A c \in Callers :
             (calls[c].pc = "idle" /\ calls'[c].pc # "idle") =>
               ~young /\ calls'[c].pc = "bonding"]_vars

(* a call resolved from a source at time 0 and the next call, 29999 ms
   later, served its valuation from the cache *)
C7_SecondFromCache ==
  /\ Len(done) = 2
  /\ done[1].by = "source" /\ done[1].start = 0 /\ done[1].queries >= 1
  /\ done[2].by = "cache" /\ done[2].start = 29999 /\ done[2].queries = 0
  /\ done[2].alone
  /\ done[2].asset = done[1].asset
  /\ done[2].result = done[1].result

-----------------------------------------------------------------------------
(* the place of the pair getPriceFromDexScreener must take: the first of
   those with the highest liquidity.usd, a missing one counting as 0 *)
FirstMostLiquid(ps) ==
  LET usd(i) == IF ps[i].liquidity = Null THEN 0 ELSE ps[i].liquidity[1]
  IN CHOOSE i \in 1..Len(ps) :
       /\ \A j \in 1..Len(ps) : usd(j) <= usd(i)
       /\ \A j \in 1..(i - 1) : usd(j) < usd(i)

UsdPrice(pair) == IF pair.priceUsd = "1" THEN 1 ELSE 2

(* C8: with several pairs reported, the price resolved is that of the pair
   with the highest liquidity.usd, the first such pair on a tie, a pair
   without liquidity counting as 0; candidates [{V:1,L:100},{V:2,L:500}]
   give 2. *)
C8_MaxLiquidityFirst ==
  /\ bestPrice.resolved /\ Len(pairs) > 0 =>
       bestPrice.price = Some(UsdPrice(pairs[FirstMostLiquid(pairs)]))
  /\ getPriceFromDexScreener(<< [priceUsd |-> "1", liquidity |-> Some(100)],
                                [priceUsd |-> "2", liquidity |-> Some(500)] >>) = Some(2)

(* two pairs tie on the highest liquidity, a third has none: the first of
   the two gave the price *)
C8_TieTakesFirst ==
  /\ bestPrice.resolved
  /\ pairs = << [priceUsd |-> "2", liquidity |-> Null],
                [priceUsd |-> "1", liquidity |-> Some(500)],
                [priceUsd |-> "2", liquidity |-> Some(500)] >>
  /\ bestPrice.price = Some(1)

-----------------------------------------------------------------------------
(* The positions inside the body of executeBuybackCycle and of
   checkMilestones, between the guard being set and the finally block *)
BuybackBodyPcs ==
  {"check", "started", "collectSent", "collected", "buySent", "bought",
   "burnSent", "burned", "recorded", "cleared"}

MilestoneBodyPcs ==
  {"check", "loop", "mStarted", "mBurnSent", "mBurned", "mRecorded", "mCompleted"}

(* C11: in each script the guard is held exactly while a tick is inside the
   body, and a tick that fires while it is held is skipped: it leaves the
   process, the recovery file, the database, the wallet and the guard itself
   exactly as they were, and sends nothing. *)
C11_OverlapSkipped ==
  /\ bb.isProcessing <=> bb.pc \in BuybackBodyPcs
  /\ bb.isProcessing => BuybackGuard(bb, World) = Result(bb, World)
  /\ ms.isProcessing <=> (ms.pc \in MilestoneBodyPcs /\ ms.caller # "recovery")
  /\ ms.isProcessing => MilestoneGuard(ms, World) = Result(ms, World)

(* both scripts are awaiting the confirmation of a transaction they sent
   when the next tick of each fires *)
C11_BothAwaiting ==
  /\ bb.isProcessing /\ bb.pc = "buySent"
  /\ ms.isProcessing /\ ms.pc = "mBurnSent"
  /\ ENABLED BTickOverlap /\ ENABLED MTickOverlap

-----------------------------------------------------------------------------
(* C12: completeMilestone called for a milestone that is already completed
   changes nothing: whatever signature the second call carries, the row keeps
   the tx_signature of the first completion. *)
C12_CompleteIdempotent ==
  \A marketCap \in DOMAIN milestones : \A txSignature \in 1..(Len(ledger) + 1) :
    milestones[marketCap].completed = 1 =>
      completeMilestone(milestones, marketCap, txSignature) = milestones

(* the running script never rewrites the signature of a completed milestone *)
C12_FirstSignatureKept ==
  [][\A marketCap \in DOMAIN milestones :
       milestones[marketCap].completed = 1 =>
         milestones'[marketCap].tx_signature = milestones[marketCap].tx_signature]_vars

-----------------------------------------------------------------------------
(* caller c's getTokenPrice returns the last known price in this step *)
ReturnsLastKnown(c) ==
  /\ calls[c].pc = "dexscreener"
  /\ calls'[c].pc = "idle"
  /\ done'[Len(done')].by = "last_known"

(* C13: when every source has failed, the last cached valuation is returned
   only while it is younger than the grace period. *)
C13_LastKnownWithinGrace ==
  [][\A c \in Callers :
       ReturnsLastKnown(c) => calls[c].now - priceCache.timestamp < GracePeriod]_vars

-----------------------------------------------------------------------------
(* marketCap of the source = "none" defaults, which getMarketCap hands on *)
SentinelMarketCap == 0

(* C14: a checkMilestones tick that is handed the market cap of the
   source = "none" defaults finds no milestone due and ends at once: it
   sends no burn, writes no slot, completes no milestone and records
   nothing. *)
C14_SentinelDecidesNothing ==
  ms.pc = "check" =>
    LET r == MilestoneCheck(ms, World, SentinelMarketCap) IN
      /\ getPendingMilestones(milestones, SentinelMarketCap) = << >>
      /\ r.w = World
      /\ r.l = MReturn([ms EXCEPT !.lastCheckedMarketCap = SentinelMarketCap])

(* a tick has gone by on the defaults after an earlier tick burned for a
   milestone, with milestones still open *)
C14_SentinelTickDone ==
  /\ ms.pc = "idle"
  /\ ms.lastCheckedMarketCap = SentinelMarketCap
  /\ CompletedMilestones # {}
  /\ CompletedMilestones # DOMAIN milestones

-----------------------------------------------------------------------------
(* C15: whatever the SOL price sources answer and whatever the cache holds,
   getSolPriceInUsd returns a positive price. *)
C15_SolPricePositive ==
  \A answers \in SolAnswers : getSolPriceInUsd(solPriceCache, now, answers).price > 0

-----------------------------------------------------------------------------
(* the number of sources a call has asked when it is waiting for source, and
   when a result of that origin is returned *)
AskedBefore(pc) ==
  CASE pc = "bonding" -> 0
    [] pc = "jupiter" -> 1
    [] pc = "dexscreener" -> 2

AskedFor(by, source) ==
  CASE by = "cache" -> 0
    [] by = "source" /\ source = "bonding_curve" -> 1
    [] by = "source" /\ source = "jupiter" -> 2
    [] by = "source" /\ source = "dexscreener" -> 3
    [] OTHER -> 3

(* C16: a call that misses the cache asks the bonding curve, then Jupiter,
   then DexScreener, each once and each only after the ones before it
   yielded nothing; the first source that yields a valuation ends the call
   and gives the result its source tag. *)
C16_SourceOrder ==
  /\ \A c \in Awaiting : calls[c].queries = AskedBefore(calls[c].pc)
  /\ \A i \in 1..Len(done) :
       /\ done[i].queries = AskedFor(done[i].by, done[i].result.source)
       /\ done[i].by = "source" =>
            done[i].result.source \in {"bonding_curve", "jupiter", "dexscreener"}
       /\ done[i].by = "defaults" => done[i].result.source = "none"

(* one call was answered by Jupiter and another by DexScreener *)
C16_LaterSourcesAnswered ==
  \E i, j \in 1..Len(done) :
    /\ done[i].by = "source" /\ done[i].result.source = "jupiter"
    /\ done[j].by = "source" /\ done[j].result.source = "dexscreener"

-----------------------------------------------------------------------------
(* the callers whose getTokenPrice call for asset is in its round of source
   queries: past the cache test and waiting for a source to answer *)
Querying(asset) == {c \in Awaiting : calls[c].asset = asset}

(* C17: getTokenPrice calls for one asset that overlap while the cache is
   empty or expired share one round of source queries: at no time are two of
   them querying the sources. *)
C17_ConcurrentCollapse ==
  \A asset \in Assets : Cardinality(Querying(asset)) <= 1

-----------------------------------------------------------------------------
(* C18: a getTokenPrice call answered from the cache gets a valuation that
   was resolved for the token address it asked about. *)
C18_CachePerAsset ==
  \A i \in 1..Len(done) :
    done[i].by = "cache" => done[i].result.asset = done[i].asset

-----------------------------------------------------------------------------
(* the cycle is at Step 6 and the signature of its burn is already in burns *)
DuplicateAtRecord ==
  /\ bb.pc = "burned"
  /\ recordBurnThrows(burns, BuybackBurnData(bb.tokensToBurn, bb.sig, bb.tokensBought))

(* a single running script never meets the duplicate: the signature it
   records is that of the burn it has just sent *)
C19_NeverDuplicate == ~DuplicateAtRecord

(* the burns table when another writer (a second instance, a recovery pass)
   has recorded burnData first *)
RecordedElsewhere(w, burnData) == [w EXCEPT !.burns = recordBurn(@, burnData)]

(* the cycle from Step 6 to the clearing of the slot *)
RecordAndClear(l, w) ==
  LET r == BuybackRecord(l, w) IN
    IF r.l.pc = "recorded" THEN BuybackClear(r.l, r.w) ELSE r

(* C19: when the insert at Step 6 is rejected because burns already holds
   the signature, the table is left as it was and the cycle still clears its
   slot. *)
C19_DuplicateSwallowed ==
  bb.pc = "burned" =>
    LET burnData == BuybackBurnData(bb.tokensToBurn, bb.sig, bb.tokensBought)
        w == RecordedElsewhere(World, burnData)
        r == RecordAndClear(bb, w)
    IN /\ r.w.burns = w.burns
       /\ r.w.slot.buyback = NoSlot

-----------------------------------------------------------------------------
(* the burn schedule after its amounts were edited in the configuration *)
RevisedSchedule ==
  [i \in 1..Len(BURN_SCHEDULE) |-> [BURN_SCHEDULE[i] EXCEPT !.burnAmount = @ + 1]]

(* the rows of tbl for the market caps in caps *)
RowsOf(tbl, caps) == [c \in caps |-> tbl[c]]

(* C20: initMilestones on a store that already holds milestone rows (all of
   them, or only the completed ones) leaves each of them as it is, adds a
   fresh row for each market cap of the schedule that is not there, and run
   a second time changes nothing. *)
C20_SeedingIdempotent ==
  \A schedule \in {BURN_SCHEDULE, RevisedSchedule} :
    \A held \in {DOMAIN milestones, CompletedMilestones} :
      LET tbl == RowsOf(milestones, held)
          once == initMilestones(tbl, schedule)
          caps == {schedule[i].marketCap : i \in 1..Len(schedule)}
      IN /\ DOMAIN once = held \cup caps
         /\ \A c \in held : once[c] = tbl[c]
         /\ \A c \in caps \ held :
              \E i \in 1..Len(schedule) :
                /\ schedule[i].marketCap = c
                /\ once[c] = [burn_amount |-> schedule[i].burnAmount,
                              completed |-> 0, tx_signature |-> 0]
         /\ initMilestones(once, schedule) = once

(* the script was restarted, and seeded again, with milestones completed *)
C20_ReseededAfterCompletion ==
  /\ crashes > 0
  /\ ms.pc = "recovered"
  /\ CompletedMilestones # {}

-----------------------------------------------------------------------------
(* a burn of the script has been confirmed on the ledger and its burn step
   is not over: the BURNED checkpoint is still to be written *)
BuybackBurnInFlight == bb.pc = "burnSent"

MilestoneBurnInFlight == ms.pc = "mBurnSent"

(* C21: a milestone burn is never in flight while the burn step of a buyback
   cycle is. *)
C21_BurnsExclusive == ~(BuybackBurnInFlight /\ MilestoneBurnInFlight)

-----------------------------------------------------------------------------
(* a signature the ledger of w does not hold: that of a transaction that was
   submitted and then failed or was dropped *)
FailedSig(w) == Len(w.ledger) + 2

(* the persisted state w with the burn of its buyback / milestone slot failed *)
BuybackBurnFailed(w) == [w EXCEPT !.slot.buyback.burnTx = FailedSig(w)]

MilestoneBurnFailed(w) == [w EXCEPT !.slot.milestone.burnTx = FailedSig(w)]

(* the outside during a recovery pass in which getTransaction answers *)
RpcAnswers == {env \in RecoveryEnv : env.rpcOk}

(* C22: a recovery pass that finds a burn signature in a slot and learns from
   the ledger that the transaction failed or is not there clears the slot and
   submits nothing, for the buyback slot and for the milestone slot. *)
C22_FailedBurnNotRetried ==
  \A env \in RpcAnswers :
    /\ (slot.buyback # NoSlot /\ slot.buyback.burnTx # 0) =>
         LET w == BuybackBurnFailed(World)
             r == BuybackRecoveryPass(w, env)
         IN r.slot.buyback = NoSlot /\ r.ledger = w.ledger
    /\ (slot.milestone # NoSlot /\ slot.milestone.burnTx # 0) =>
         LET w == MilestoneBurnFailed(World)
             r == MilestoneRecoveryPass(w, env)
         IN r.slot.milestone = NoSlot /\ r.ledger = w.ledger

-----------------------------------------------------------------------------
(* the outside during a recovery pass in which getTransaction throws *)
RpcFails == {env \in RecoveryEnv : ~env.rpcOk}

(* the slot holds a signature that checkPendingOps hands to verifyTransaction *)
BuybackToVerify ==
  /\ slot.buyback # NoSlot
  /\ \/ slot.buyback.burnTx # 0
     \/ slot.buyback.buyTx # 0 /\ slot.buyback.tokensBought # 0

MilestoneToVerify == slot.milestone # NoSlot /\ slot.milestone.burnTx # 0

(* C23: a recovery pass whose ledger query fails leaves the slot, the burns
   table and the milestones table as they are and submits nothing. *)
C23_RpcErrorLeavesAll ==
  \A env \in RpcFails :
    /\ BuybackToVerify => BuybackRecoveryPass(World, env) = World
    /\ MilestoneToVerify => MilestoneRecoveryPass(World, env) = World

-----------------------------------------------------------------------------
(* the rows of a burns table with signature sig *)
RowsWith(tbl, sig) == {i \in 1..Len(tbl) : tbl[i].tx_signature = sig}

(* what a recovery pass that found the finalized burn sig in its slot must
   leave: from w to r nothing was submitted, the one row for sig is the old
   one if there was one and else carries the quantity of the burn *)
FinalizedRecorded(w, r, sig) ==
  /\ r.ledger = w.ledger
  /\ Cardinality(RowsWith(r.burns, sig)) = 1
  /\ \A i \in RowsWith(r.burns, sig) :
       IF burnTxExists(w.burns, sig)
       THEN r.burns = w.burns
       ELSE r.burns[i].burn_amount = w.ledger[sig].qty

(* C24: a recovery pass that finds in a slot a burn signature that verifies
   writes the burn record only if there is none for that signature, with the
   quantity that was burned, submits no burn and clears the slot; for a
   milestone it also marks the milestone completed. *)
C24_FinalizedMarkedComplete ==
  \A env \in RpcAnswers :
    /\ (slot.buyback # NoSlot /\ slot.buyback.burnTx # 0) =>
         LET r == BuybackRecoveryPass(World, env) IN
           /\ FinalizedRecorded(World, r, slot.buyback.burnTx)
           /\ r.slot.buyback = NoSlot
    /\ (slot.milestone # NoSlot /\ slot.milestone.burnTx # 0) =>
         LET r == MilestoneRecoveryPass(World, env) IN
           /\ FinalizedRecorded(World, r, slot.milestone.burnTx)
           /\ r.slot.milestone = NoSlot
           /\ milestoneCompleted(r.milestones, slot.milestone.milestoneMarketCap)

(* the same without the quantity: the parts of C24 the code keeps *)
C24_FinalizedCleared ==
  \A env \in RpcAnswers :
    /\ (slot.buyback # NoSlot /\ slot.buyback.burnTx # 0) =>
         LET r == BuybackRecoveryPass(World, env) IN
           /\ r.ledger = ledger
           /\ Cardinality(RowsWith(r.burns, slot.buyback.burnTx)) = 1
           /\ burnTxExists(burns, slot.buyback.burnTx) => r.burns = burns
           /\ r.slot.buyback = NoSlot
    /\ (slot.milestone # NoSlot /\ slot.milestone.burnTx # 0) =>
         LET r == MilestoneRecoveryPass(World, env) IN
           /\ r.ledger = ledger
           /\ Cardinality(RowsWith(r.burns, slot.milestone.burnTx)) = 1
           /\ burnTxExists(burns, slot.milestone.burnTx) => r.burns = burns
           /\ r.slot.milestone = NoSlot
           /\ milestoneCompleted(r.milestones, slot.milestone.milestoneMarketCap)

-----------------------------------------------------------------------------
(* the slot s of either class holds a signature that no burn record of tbl
   accounts for *)
HoldsUnresolved(s, tbl) ==
  /\ s # NoSlot
  /\ \/ s.burnTx # 0 /\ ~burnTxExists(tbl, s.burnTx)
     \/ s.burnTx = 0 /\ "buyTx" \in DOMAIN s /\ (s.buyTx # 0 \/ s.collectTx # 0)

(* this step starts a new operation in the slot named class *)
StartsOp(class) ==
  /\ slot'[class] # slot[class]
  /\ slot'[class] # NoSlot
  /\ slot'[class].state = OP_STATES.STARTED

(* this step empties the slot named class outside a recovery pass *)
ClearsInTick(class, l) ==
  /\ slot[class] # NoSlot
  /\ slot'[class] = NoSlot
  /\ l.isProcessing

(* C25: no step starts a new operation over, or empties during a tick, a
   slot that still holds a transaction signature without a matching burn
   record. *)
C25_SlotNotReplaced ==
  [][/\ StartsOp("buyback") => ~HoldsUnresolved(slot.buyback, burns)
     /\ StartsOp("milestone") => ~HoldsUnresolved(slot.milestone, burns)
     /\ ClearsInTick("buyback", bb) => ~HoldsUnresolved(slot.buyback, burns)
     /\ ClearsInTick("milestone", ms) => ~HoldsUnresolved(slot.milestone, burns)]_vars

-----------------------------------------------------------------------------
(* in this step a step of the buyback cycle fails: the error enters the slot *)
CycleStepFails ==
  /\ slot.buyback # NoSlot /\ slot'.buyback # NoSlot
  /\ ~slot.buyback.error /\ slot'.buyback.error

(* what a failing step leaves besides the slot: nothing submitted, nothing
   recorded, the tick over and the guard released *)
FailureEndsTick ==
  /\ ledger' = ledger
  /\ burns' = burns
  /\ bb' = BReturn

(* C26, as stated: when collect, buy or burn fails, the slot keeps the stage
   of the last successful step with the signatures and quantities obtained
   so far, plus the error; no later step is attempted, no burn record is
   written and the tick returns with the guard released. *)
C26_StageKeptOnFailure ==
  [][CycleStepFails =>
       /\ slot'.buyback = [slot.buyback EXCEPT !.error = TRUE]
       /\ FailureEndsTick]_vars

(* C26, amended: when collect, buy or burn fails, the slot's state becomes
   FAILED and the error is stored, while the signatures and quantities
   obtained so far stay in the slot; no later step is attempted, no burn
   record is written and the tick returns with the guard released. *)
C26_FailedKeepsSignatures ==
  [][CycleStepFails =>
       /\ slot'.buyback = [slot.buyback EXCEPT !.state = OP_STATES.FAILED,
                                                !.error = TRUE]
       /\ slot.buyback.state \in {OP_STATES.STARTED, OP_STATES.FEES_COLLECTED,
                                  OP_STATES.TOKENS_BOUGHT}
       /\ FailureEndsTick]_vars

(* a tick has returned after its burn failed, the buy signature and the
   quantity bought still in the slot *)
C26_BurnFailedTick ==
  /\ bb.pc = "idle" /\ ~bb.isProcessing
  /\ slot.buyback # NoSlot
  /\ slot.buyback.state = OP_STATES.FAILED /\ slot.buyback.error
  /\ slot.buyback.collectTx # 0 /\ slot.buyback.buyTx # 0
  /\ slot.buyback.tokensBought # 0 /\ slot.buyback.burnTx = 0

-----------------------------------------------------------------------------
(* a tick of the buyback script submits a transaction of kind in this step *)
TickSubmits(kind) ==
  /\ bb.isProcessing
  /\ Len(ledger') = Len(ledger) + 1
  /\ ledger'[Len(ledger')].kind = kind
  /\ ledger'[Len(ledger')].class = "buyback"

(* C27: in a buyback tick collect is submitted with the slot persisted as
   STARTED and nothing submitted before it, buy with the slot persisted as
   FEES_COLLECTED holding the signature of that collect, burn with the slot
   persisted as TOKENS_BOUGHT holding the signature and the quantity of that
   buy; the burn record is written, and the slot then cleared, with the slot
   persisted as BURNED holding the signature of that burn.  Each submission
   follows the checkpoint of the one before it, so each happens at most once
   per tick and in the order collect, buy, burn. *)
C27_CheckpointBeforeNext ==
  [][/\ TickSubmits("collect") =>
          /\ slot.buyback = startBuybackOp(slot).buyback
          /\ bb.sig = 0
     /\ TickSubmits("buy") =>
          /\ slot.buyback.state = OP_STATES.FEES_COLLECTED
          /\ slot.buyback.collectTx = bb.sig
          /\ ledger[bb.sig].kind = "collect"
          /\ slot.buyback.buyTx = 0 /\ slot.buyback.burnTx = 0
     /\ TickSubmits("burn") =>
          /\ slot.buyback.state = OP_STATES.TOKENS_BOUGHT
          /\ slot.buyback.buyTx = bb.sig
          /\ ledger[bb.sig].kind = "buy"
          /\ slot.buyback.tokensBought = ledger[bb.sig].qty
          /\ slot.buyback.burnTx = 0
     /\ (bb.isProcessing /\ burns' # burns) =>
          /\ slot.buyback.state = OP_STATES.BURNED
          /\ slot.buyback.burnTx = bb.sig
          /\ ledger[bb.sig].kind = "burn"
          /\ burns' = Append(burns, burns'[Len(burns')])
          /\ burns'[Len(burns')].tx_signature = bb.sig
     /\ (bb.pc = "recorded" /\ slot'.buyback = NoSlot) =>
          /\ slot.buyback.state = OP_STATES.BURNED
          /\ burnTxExists(burns, slot.buyback.burnTx)]_vars

(* a tick has gone through collect, buy, burn, record and clear *)
C27_FullCycle ==
  /\ bb.pc = "cleared"
  /\ slot.buyback = NoSlot
  /\ Len(burns) = 1
  /\ \E i, j, k \in 1..Len(ledger) :
       /\ i < j /\ j < k
       /\ ledger[i].kind = "collect" /\ ledger[j].kind = "buy" /\ ledger[k].kind = "burn"
       /\ burns[1].tx_signature = k

-----------------------------------------------------------------------------
(* the buyback slot holds a buy signature and tokensBought, no burn signature *)
BoughtNotBurned ==
  /\ slot.buyback # NoSlot
  /\ slot.buyback.buyTx # 0 /\ slot.buyback.tokensBought # 0
  /\ slot.buyback.burnTx = 0

(* the persisted state w with the buy of its buyback slot failed *)
BuybackBuyFailed(w) == [w EXCEPT !.slot.buyback.buyTx = FailedSig(w)]

(* C28: a recovery pass on a buyback slot with a buy signature and
   tokensBought but no burn signature.  If the buy verifies, one burn of
   floor(0.99 * tokensBought) is attempted; when it succeeds it is the only
   transaction the pass submits, it is recorded with that quantity and the
   slot is cleared, and when it fails nothing is submitted or recorded.  If
   the buy does not verify, because the query fails or the transaction is
   not there, the slot is cleared and nothing is submitted or recorded. *)
C28_BoughtThenBurnedOnce ==
  BoughtNotBurned =>
    /\ \A env \in RecoveryEnv :
         LET after == BuybackRecoveryPass(World, env)
             qty == (slot.buyback.tokensBought * 99) \div 100
         IN IF ~env.rpcOk
            THEN /\ after.slot.buyback = NoSlot
                 /\ after.ledger = ledger /\ after.burns = burns
            ELSE IF ~env.burnOk
            THEN after.ledger = ledger /\ after.burns = burns
            ELSE /\ after.ledger = Append(ledger, [kind |-> "burn", qty |-> qty,
                                                   class |-> "buyback", target |-> 0])
                 /\ after.burns =
                      Append(burns, [burn_type |-> "buyback", burn_amount |-> qty,
                                     tx_signature |-> Len(ledger) + 1,
                                     milestone_target |-> 0,
                                     tokens_bought |-> slot.buyback.tokensBought])
                 /\ after.slot.buyback = NoSlot
    /\ \A env \in RpcAnswers :
         LET w == BuybackBuyFailed(World)
             after == BuybackRecoveryPass(w, env)
         IN /\ after.slot.buyback = NoSlot
            /\ after.ledger = ledger /\ after.burns = burns

(* a restart found 150 tokens bought and not burned, burned 148 of them,
   recorded the burn and cleared the slot *)
C28_Burned148 ==
  /\ crashes >= 1
  /\ bb.pc = "recovered" /\ bb.recovery = "burn_tokens"
  /\ slot.buyback = NoSlot
  /\ Len(ledger) >= 1 /\ Len(burns) >= 1
  /\ ledger[Len(ledger)].kind = "burn" /\ ledger[Len(ledger)].qty = 148
  /\ burns[Len(burns)].burn_amount = 148
  /\ burns[Len(burns)].tokens_bought = 150
  /\ burns[Len(burns)].tx_signature = Len(ledger)

-----------------------------------------------------------------------------
(* the buyback slot holds at most a collect signature *)
BuybackBeforeBuy ==
  /\ slot.buyback # NoSlot
  /\ slot.buyback.buyTx = 0 /\ slot.buyback.burnTx = 0

(* the milestone slots that hold no burn signature: as startMilestoneOp
   leaves one, and as a failed balance check or burn leaves it *)
MilestoneSlotsBeforeBurn(f) ==
  UNION {LET started == startMilestoneOp(f, BURN_SCHEDULE[i].marketCap,
                                         BURN_SCHEDULE[i].burnAmount)
         IN {started,
             updateMilestoneOp(started, [state |-> OP_STATES.FAILED, error |-> TRUE])}
         : i \in 1..Len(BURN_SCHEDULE)}

(* C29: a recovery pass on a buyback slot with only a collect signature or
   none, or on a milestone slot without a burn signature, clears that slot
   and does nothing else: it submits nothing, writes no burn record and
   completes no milestone, whatever the outside answers. *)
C29_EarlySlotCleared ==
  /\ BuybackBeforeBuy =>
       \A env \in RecoveryEnv :
         BuybackRecoveryPass(World, env) = [World EXCEPT !.slot.buyback = NoSlot]
  /\ \A f \in MilestoneSlotsBeforeBurn(slot) : \A env \in RecoveryEnv :
       MilestoneRecoveryPass([World EXCEPT !.slot = f], env) = World

(* a restart after a kill between the collect and the buy: the slot was
   cleared, nothing was submitted and nothing recorded *)
C29_ClearedAfterCollect ==
  /\ crashes >= 1
  /\ bb.pc = "recovered" /\ bb.recovery = "clear"
  /\ slot.buyback = NoSlot
  /\ burns = << >>
  /\ Len(ledger) = 1 /\ ledger[1].kind = "collect"

-----------------------------------------------------------------------------
(* main() is between its start and the end of its recovery *)
InBuybackRecovery == bb.pc \in {"boot", "rBurnSent", "rClear"}

InMilestoneRecovery ==
  \/ ms.pc \in {"boot", "rmRecorded", "rmCompleted"}
  \/ ms.caller = "recovery" /\ ms.pc \in MilestoneBodyPcs

(* C30: in each script recovery is entered only by a process start, runs
   outside any tick and with no tick able to fire, and is over before a tick
   begins; when it is over it is not entered again until the next start. *)
C30_RecoveryOncePerStart ==
  /\ [](InBuybackRecovery =>
          ~bb.isProcessing /\ ~ENABLED BTick /\ ~ENABLED BTickOverlap)
  /\ [](InMilestoneRecovery =>
          ~ms.isProcessing /\ ~ENABLED MTick /\ ~ENABLED MTickOverlap)
  /\ [][/\ (~InBuybackRecovery /\ InBuybackRecovery') =>
             (bb'.pc = "boot" /\ crashes' = crashes + 1)
        /\ (~InMilestoneRecovery /\ InMilestoneRecovery') =>
             (ms'.pc = "boot" /\ crashes' = crashes + 1)
        /\ (bb'.isProcessing /\ ~bb.isProcessing) => bb.pc \in {"recovered", "idle"}
        /\ (ms'.isProcessing /\ ~ms.isProcessing) => ms.pc \in {"recovered", "idle"}
        /\ (InBuybackRecovery /\ ~InBuybackRecovery') => bb'.pc = "recovered"
        /\ (InMilestoneRecovery /\ ~InMilestoneRecovery') => ms'.pc = "recovered"]_vars

(* the milestone script was restarted, its recovery burned again for the
   milestone of the slot, and its first check has begun *)
C30_FirstCheckAfterRecovery ==
  /\ crashes >= 1
  /\ ms.pc = "check" /\ ms.isProcessing
  /\ slot.milestone = NoSlot
  /\ Cardinality(BurnTxs(ledger, "milestone")) >= 2

-----------------------------------------------------------------------------
(* the tick that begins in a state where no check is running, up to its
   decision on the market cap it resolves *)
NextCheck(currentMarketCap) ==
  LET g == MilestoneGuard(ms, World) IN MilestoneCheck(g.l, g.w, currentMarketCap)

(* C31: a checkMilestones tick that resolves a market cap for which a
   milestone is due goes on to attempt it, whatever market cap the tick
   before it saw. *)
C31_DueIsAttempted ==
  ms.pc \in {"recovered", "idle"} =>
    \A currentMarketCap \in MarketCaps :
      getPendingMilestones(milestones, currentMarketCap) # << >> =>
        LET r == NextCheck(currentMarketCap) IN
          /\ r.l.pc = "loop"
          /\ r.l.pending = getPendingMilestones(milestones, currentMarketCap)

-----------------------------------------------------------------------------
(* C32: when the wallet holds less than the burn_amount of a due milestone,
   the attempt submits no burn, writes no burn record, leaves the milestone
   not completed and leaves no milestone slot behind. *)
C32_InsufficientLeavesNoSlot ==
  ms.pc = "mStarted" =>
    \A burnOk \in BOOLEAN :
      LET r == MilestoneBurn(ms, World, FALSE, burnOk) IN
        /\ r.w.ledger = ledger
        /\ r.w.burns = burns
        /\ r.w.milestones = milestones
        /\ r.w.slot.milestone = NoSlot

(* the same without the slot: the parts of C32 the code keeps *)
C32_InsufficientSubmitsNothing ==
  ms.pc = "mStarted" =>
    \A burnOk \in BOOLEAN :
      LET r == MilestoneBurn(ms, World, FALSE, burnOk) IN
        /\ r.w.ledger = ledger
        /\ r.w.burns = burns
        /\ r.w.milestones = milestones

-----------------------------------------------------------------------------
(* a tick of the script ends in this step *)
BuybackTickEnds == bb.pc \in BuybackBodyPcs /\ bb'.pc \notin BuybackBodyPcs

MilestoneTickEnds ==
  /\ ms.pc \in MilestoneBodyPcs /\ ms.caller # "recovery"
  /\ ms'.pc \notin MilestoneBodyPcs

(* C33: however a tick ends, by its last step, by an early return or by a
   failed remote call or database write, the process is still there with the
   guard released, and the tick scheduled next enters the body. *)
C33_GuardReleased ==
  /\ [](bb.pc = "idle" =>
          ~bb.isProcessing /\ BuybackGuard(bb, World).l = BLocal("check", TRUE))
  /\ [](ms.pc = "idle" =>
          ~ms.isProcessing /\ MilestoneGuard(ms, World).l.pc = "check")
  /\ [][/\ BuybackTickEnds => (bb'.pc = "idle" /\ ~bb'.isProcessing)
        /\ MilestoneTickEnds => (ms'.pc = "idle" /\ ~ms'.isProcessing)]_vars

(* a buyback tick is running after the one before it ended on a failed step,
   and a milestone tick has ended on a failed burn *)
C33_TickAfterFailure ==
  /\ bb.pc = "check"
  /\ slot.buyback # NoSlot /\ slot.buyback.state = OP_STATES.FAILED
  /\ ms.pc = "idle" /\ ~ms.isProcessing
  /\ slot.milestone # NoSlot /\ slot.milestone.state = OP_STATES.FAILED

-----------------------------------------------------------------------------
(* The slot operation each process performs next: loadPendingOps, the change
   of its own key, savePendingOps of the whole file.  The two scripts are two
   operating-system processes, so the load of one can fall between the load
   and the save of the other. *)
BuybackSlotOpPcs == {"collectSent", "buySent", "burnSent", "recorded"}

MilestoneSlotOpPcs == {"mBurnSent", "mCompleted"}

(* the file the buyback process saves, from the file it loaded *)
BuybackSave(l, loaded) ==
  LET w == [World EXCEPT !.slot = loaded] IN
  CASE l.pc = "collectSent" -> BuybackCollectCheckpoint(l, w).w.slot
    [] l.pc = "buySent" -> BuybackBuyCheckpoint(l, w).w.slot
    [] l.pc = "burnSent" -> BuybackBurnCheckpoint(l, w).w.slot
    [] l.pc = "recorded" -> BuybackClear(l, w).w.slot
    [] OTHER -> loaded

(* the file the milestone process saves, from the file it loaded *)
MilestoneSave(l, loaded) ==
  LET w == [World EXCEPT !.slot = loaded] IN
  CASE l.pc = "mBurnSent" -> MilestoneBurnCheckpoint(l, w).w.slot
    [] l.pc = "mCompleted" -> MilestoneClear(l, w).w.slot
    [] OTHER -> loaded

(* the file after both operations, for each order of the two loads and the
   two saves: one after the other, or both loads before both saves *)
InterleavedSaves(lb, lm, file) ==
  { MilestoneSave(lm, BuybackSave(lb, file)),
    BuybackSave(lb, MilestoneSave(lm, file)),
    MilestoneSave(lm, file),     \* both load, buyback saves, milestone saves
    BuybackSave(lb, file) }      \* both load, milestone saves, buyback saves

(* C34: for every interleaving of a slot operation of the buyback process
   with one of the milestone process, the file ends with each class's slot as
   that class's own operation left it. *)
C34_SlotsIndependent ==
  (bb.pc \in BuybackSlotOpPcs /\ ms.pc \in MilestoneSlotOpPcs) =>
    \A file \in InterleavedSaves(bb, ms, slot) :
      /\ file.buyback = BuybackSave(bb, slot).buyback
      /\ file.milestone = MilestoneSave(ms, slot).milestone

(* the same, with each operation's load and save taken together *)
C34_AtomicOpsIndependent ==
  (bb.pc \in BuybackSlotOpPcs /\ ms.pc \in MilestoneSlotOpPcs) =>
    \A file \in { MilestoneSave(ms, BuybackSave(bb, slot)),
                  BuybackSave(bb, MilestoneSave(ms, slot)) } :
      /\ file.buyback = BuybackSave(bb, slot).buyback
      /\ file.milestone = MilestoneSave(ms, slot).milestone

-----------------------------------------------------------------------------
(* the signature is of a burn that finalized on the ledger: burnTokens
   reported success for it, and verifyTransaction finds it *)
ConfirmedBurn(ldg, sig) == sig \in 1..Len(ldg) /\ ldg[sig].kind = "burn"

(* C35: every row of the burns table carries the signature of a burn that
   finalized, whichever script, tick or recovery wrote it, and a step only
   ever appends rows: the rows already there stay as they are. *)
C35_RecordsConfirmed ==
  /\ [](\A i \in DOMAIN burns : ConfirmedBurn(ledger, burns[i].tx_signature))
  /\ [][/\ Len(burns') >= Len(burns)
        /\ SubSeq(burns', 1, Len(burns)) = burns]_vars

(* a recovery wrote the record of a burn whose tick was killed before
   recording it *)
C35_RecordedByRecovery ==
  /\ crashes > 0 /\ Len(burns) > 0
  /\ ms.pc = "rmRecorded" /\ ms.recovery = "mark_complete"
  /\ burns[Len(burns)].tx_signature = ms.sig

-----------------------------------------------------------------------------
(* C36: a milestone with completed = 1 has a row of the burns table with
   its tx_signature and with its market_cap as milestone_target, in every
   state, kills and recoveries included: the record comes before the flag. *)
C36_CompletedHasRecord ==
  \A m \in DOMAIN milestones :
    milestones[m].completed = 1 =>
      \E i \in DOMAIN burns :
        /\ burns[i].tx_signature = milestones[m].tx_signature
        /\ burns[i].milestone_target = m

(* a milestone completed by the tick and another by a recovery after a kill *)
C36_CompletedBothWays ==
  /\ crashes > 0
  /\ ms.pc = "rmCompleted"
  /\ Cardinality({m \in DOMAIN milestones : milestones[m].completed = 1}) >= 2

-----------------------------------------------------------------------------
(* the transactions of one kind the buyback script has on the ledger *)
BuybackTxs(ldg, kind) ==
  {i \in 1..Len(ldg) : ldg[i].class = "buyback" /\ ldg[i].kind = kind}

(* C37: however often the script is killed and restarted while it recovers a
   slot with a verified buy and no burn signature, the ledger never holds
   more finalized buyback burns than buys: one burn per acquired output. *)
C37_OneBurnPerBuy ==
  Cardinality(BuybackTxs(ledger, "burn")) <= Cardinality(BuybackTxs(ledger, "buy"))

(* the same while the script has never been killed *)
C37_OneBurnPerBuyUnkilled ==
  crashes = 0 => C37_OneBurnPerBuy

(* C37, at the kill itself: the recovery has sent its burn and is killed
   before its record and its clear; the recovery of the next start sends
   nothing more. *)
C37_KilledRecoveryBurnsOnce ==
  (bb.pc = "rBurnSent" /\ bb.recovery = "burn_tokens") =>
    \A env \in RecoveryEnv :
      BuybackRecoveryPass(World, env).ledger = ledger

-----------------------------------------------------------------------------
(* executeMilestoneBurn, called by the loop of a tick, returns null in this
   step: the balance was short, burnTokens failed, or an error was thrown *)
AttemptFails ==
  /\ ms.caller = "tick" /\ ms.pc \in {"mStarted", "mBurnSent", "mBurned", "mRecorded"}
  /\ ms'.pc = "loop"

(* C38: an attempt of a tick that is skipped or fails leaves its milestone
   with completed = 0 and adds no burn record, the loop keeps its list and
   its place in it, hands the next milestone of the list to
   executeMilestoneBurn, and the tick only ends after the last one. *)
C38_FailureDoesNotAbort ==
  /\ [][AttemptFails =>
          /\ ms'.pending = ms.pending /\ ms'.next = ms.next /\ ms'.caller = "tick"
          /\ milestones' = milestones /\ burns' = burns
          /\ milestones[ms.cur.market_cap].completed = 0]_vars
  /\ [][(ms.caller = "tick" /\ ms'.pc = "idle") =>
          (ms.pc = "loop" /\ ms.next > Len(ms.pending))]_vars
  /\ []((ms.caller = "tick" /\ ms.pc = "loop" /\ ms.next <= Len(ms.pending)) =>
          LET r == MilestoneLoop(ms, World) IN
            /\ r.l.next = ms.next + 1 /\ r.l.pending = ms.pending
            /\ \/ r.l.pc = "mStarted" /\ r.l.cur = ms.pending[ms.next]
               \/ /\ r.l.pc = "loop" /\ r.w = World
                  /\ milestoneCompleted(milestones, ms.pending[ms.next].market_cap))

(* the first due milestone of a tick failed and the tick has burned the
   second one *)
C38_SecondAfterFailedFirst ==
  /\ crashes = 0 /\ ms.caller = "tick" /\ ms.pc = "mBurnSent"
  /\ Len(ms.pending) >= 2 /\ ms.next = 3
  /\ milestones[ms.pending[1].market_cap].completed = 0
  /\ Len(ledger) = 1 /\ ledger[1].target = ms.pending[2].market_cap
  /\ burns = << >>

-----------------------------------------------------------------------------
(* C39: when the balance delta around the collect step is not positive or
   does not exceed the gas buffer, the cycle submits nothing, writes no burn
   record, clears the slot and returns with the guard released, whatever
   buyTokens would have answered. *)
C39_SmallDeltaEndsCycle ==
  /\ [](bb.pc = "collected" =>
          \A collectedAmount \in {d \in Deltas : d <= GasBuffer} :
            \A ok \in BOOLEAN, tokensReceived \in TokensReceived :
              LET r == BuybackBuy(bb, World, collectedAmount, ok, tokensReceived) IN
                /\ r.w.ledger = ledger /\ r.w.burns = burns
                /\ r.w.slot.buyback = NoSlot
                /\ r.l = BReturn /\ ~r.l.isProcessing)
  /\ [][(bb.pc = "collected" /\ bb'.pc = "idle" /\ slot'.buyback = NoSlot) =>
          (ledger' = ledger /\ burns' = burns /\ ~bb'.isProcessing)]_vars

(* a cycle collected, found the delta too small and ended: the ledger holds
   the collect and nothing after it, and the slot is clear *)
C39_EndedAfterCollect ==
  /\ crashes = 0 /\ bb.pc = "idle" /\ ~bb.isProcessing
  /\ slot.buyback = NoSlot
  /\ Len(ledger) = 1 /\ ledger[1].kind = "collect"
  /\ burns = << >>

-----------------------------------------------------------------------------
(* C40: whatever the interleaving of the getTokenPrice calls, a step replaces
   the price cache entry only by one whose timestamp is at least that of the
   entry it replaces. *)
C40_TimestampMonotone ==
  [][priceCache'.timestamp >= priceCache.timestamp]_vars

(* the same for calls that run alone from entry to return *)
C40_TimestampMonotoneAlone ==
  [][(\A c \in Callers : calls[c].pc # "idle" => calls[c].alone) =>
       priceCache'.timestamp >= priceCache.timestamp]_vars

=============================================================================
